---- MODULE Spec2Model ----
(***************************************************************************)
(* A model of cmdpal: the task store (storage.py), the ranking of rows     *)
(* (utils.py), the interactive session (tui.py: CmdPalApp), the entry      *)
(* point (__main__.py: main) and the dispatch of a task (tui.py: run_task).*)
(*                                                                         *)
(* Encodings.  Python's None of an optional value is the empty sequence    *)
(* and a present value v is <<v>>.  A dict of strings is a set of          *)
(* <<key, value>> pairs with at most one pair per key.  A path is the      *)
(* sequence of its segments; "~/proj" is <<"~", "proj">>.  A command is    *)
(* the sequence of its words; a placeholder is the word "${name}".         *)
(***************************************************************************)
EXTENDS Integers, Sequences, FiniteSets, TLC

VARIABLES
    tasksFile,      \* tasks.json: [kind, items]
    historyFile,    \* history.json: [kind, items]
    dirs,           \* the directories that exist
    clock,          \* the next value of time.time()
    uuidCount,      \* how many uuid4() values have been drawn
    score,          \* fuzz.WRatio as a table: <<query, choice>> -> 0..100
    pc,             \* where the process is
    launch_cwd,     \* os.getcwd() at launch
    tasks,          \* CmdPalApp.tasks
    history,        \* CmdPalApp.history
    query,          \* CmdPalApp._current_filter_query (and the Input's value)
    rows,           \* the DataTable's row keys, in order
    cursor_row,     \* the DataTable's cursor row
    preview,        \* the task shown in the preview pane, if any
    reco_ids,       \* the ids listed in the recommendation banner
    reco_names,     \* the names the banner shows for them
    reco_display,   \* whether the banner is displayed
    result,         \* what app.run() returns
    selected_task,  \* main's selected_task, run_task's task
    param_values,   \* main's param_values
    log,            \* what the process did and printed, in order
    spawned,        \* the calls of subprocess.run: [command, cwd]
    last,           \* the last event the session handled, and the table before it
    start,          \* the two files and the clock as the process found them
    search_limit,   \* fuzzy_search_tasks called directly: its limit
    search_cutoff,  \* fuzzy_search_tasks called directly: its score_cutoff
    matched_tasks,  \* fuzzy_search_tasks called directly: the list it returned
    proc            \* two cmdpal processes at once: what each holds in memory

vars == <<tasksFile, historyFile, dirs, clock, uuidCount, score, pc, launch_cwd,
          tasks, history, query, rows, cursor_row, preview, reco_ids,
          reco_names, reco_display, result, selected_task, param_values, log, spawned,
          last, start, search_limit, search_cutoff,
          matched_tasks, proc>>

searchVars == <<search_limit, search_cutoff, matched_tasks>>
envVars == <<dirs, score, launch_cwd, start, searchVars, proc>>
uiVars == <<tasks, history, query, rows, cursor_row, preview, reco_ids,
           reco_names, reco_display>>
appVars == <<uiVars, last>>
mainVars == <<selected_task, param_values, spawned>>

----------------------------------------------------------------------------
(* Bounds of the model *)

MaxTasks == 3

----------------------------------------------------------------------------
(* Program constants *)

HISTORY_MAX_SIZE == 200
DEFAULT_SCORE_CUTOFF == 60
RECOMMENDATIONS_COUNT == 5
FuzzyLimit == 50

----------------------------------------------------------------------------
(* Generic helpers on sequences *)

Min2(a, b) == IF a <= b THEN a ELSE b
Max2(a, b) == IF a >= b THEN a ELSE b

\* list.index(x): the first position of x in s (0 when absent)
IndexOf(s, x) ==
    IF \E i \in 1..Len(s) : s[i] = x
    THEN CHOOSE i \in 1..Len(s) : s[i] = x /\ \A j \in 1..(i - 1) : s[j] # x
    ELSE 0

Contains(s, x) == \E i \in 1..Len(s) : s[i] = x

\* s[-n:] of Python for n > 0
LastN(s, n) ==
    IF Len(s) <= n THEN s ELSE SubSeq(s, Len(s) - n + 1, Len(s))

\* s[:n] of Python
FirstN(s, n) == IF Len(s) <= n THEN s ELSE SubSeq(s, 1, n)

\* The order of sorted(..., key=..., reverse=True) over the keys ks: the
\* positions of ks by key descending, equal keys in their original order
RECURSIVE OrderDesc(_, _)
OrderDesc(ks, left) ==
    IF left = {} THEN <<>>
    ELSE LET i == CHOOSE i \in left :
                     /\ \A j \in left : ks[j] <= ks[i]
                     /\ \A j \in left : j < i => ks[j] < ks[i]
         IN  <<i>> \o OrderDesc(ks, left \ {i})

SortedDesc(s, ks) ==
    LET order == OrderDesc(ks, 1..Len(s))
    IN  [k \in 1..Len(s) |-> s[order[k]]]

----------------------------------------------------------------------------
(* models.py *)

None == <<>>
Some(v) == <<v>>

\* JSON null where a list, a dict or a path is expected
NullList == <<"null">>
NullDict == {<<"null", "null">>}
HomeRef == <<"~">>

\* Mutant: only an empty command raises
TaskValidAnyName(d) == d.command # <<>>

\* Task.__post_init__: empty name or command raises ValueError
TaskValid(d) == d.name # "" /\ d.command # <<>>

\* Task(**task_data) for a dict holding exactly the fields of Task
Task(d) ==
    [id |-> d.id,
     name |-> d.name,
     command |-> d.command,
     cwd |-> IF d.cwd = <<>> THEN HomeRef ELSE d.cwd,
     description |-> d.description,
     last_run_timestamp |-> d.last_run_timestamp,
     parameters |-> IF d.parameters = NullList THEN <<>> ELSE d.parameters,
     last_param_values |->
         IF d.last_param_values = NullDict THEN {} ELSE d.last_param_values]

\* Task.get_parameter_definitions: the parameter names, [] when there are none
get_parameter_definitions(t) == t.parameters

----------------------------------------------------------------------------
(* storage.py: the task store *)

\* uuid.uuid4() as a string: the n-th value drawn, distinct from the stored ids
UuidPool == <<"u1", "u2", "u3", "u4", "u5", "u6", "u7", "u8">>

\* Mutant: uuid4 returns the same value at every call
Uuid4Repeated(n) == UuidPool[1]

Uuid4(n) == UuidPool[n]

\* Mutant: the id is not written
asdict_without_id(t) ==
    [json |-> "object",
     id |-> "",
     name |-> t.name,
     command |-> t.command,
     cwd |-> t.cwd,
     description |-> t.description,
     last_run_timestamp |-> t.last_run_timestamp,
     parameters |-> t.parameters,
     last_param_values |-> t.last_param_values]

\* Mutant: the timestamp of the last run is not written
asdict_without_timestamp(t) ==
    [json |-> "object",
     id |-> t.id,
     name |-> t.name,
     command |-> t.command,
     cwd |-> t.cwd,
     description |-> t.description,
     last_run_timestamp |-> <<>>,
     parameters |-> t.parameters,
     last_param_values |-> t.last_param_values]

\* dataclasses.asdict(task) as json.dump writes it
asdict(t) ==
    [json |-> "object",
     id |-> t.id,
     name |-> t.name,
     command |-> t.command,
     cwd |-> t.cwd,
     description |-> t.description,
     last_run_timestamp |-> t.last_run_timestamp,
     parameters |-> t.parameters,
     last_param_values |-> t.last_param_values]

\* The loop of load_tasks over the JSON list: the Task objects, whether an id
\* was generated, and how many were.
RECURSIVE LoadLoop(_, _)
LoadLoop(items, n) ==
    IF items = <<>> THEN [tasks |-> <<>>, needs_resave |-> FALSE, drawn |-> n]
    ELSE LET d == Head(items) IN
         IF d.json = "other"
         THEN LoadLoop(Tail(items), n)
         ELSE LET gen == d.id = ""
                  n1 == IF gen THEN n + 1 ELSE n
                  d1 == IF gen THEN [d EXCEPT !.id = Uuid4(n1)] ELSE d
                  rest == LoadLoop(Tail(items), n1)
                  made == d1.json = "object" /\ TaskValid(d1)
              IN  [tasks |-> IF made THEN <<Task(d1)>> \o rest.tasks
                             ELSE rest.tasks,
                   needs_resave |-> gen \/ rest.needs_resave,
                   drawn |-> rest.drawn]

\* Mutant: every load of a list with entries reports that ids were generated
load_tasks_resave_always(file, n) ==
    IF file.kind # "list"
    THEN [tasks |-> <<>>, needs_resave |-> FALSE, drawn |-> n]
    ELSE [LoadLoop(file.items, n) EXCEPT !.needs_resave = file.items # <<>>]

\* load_tasks(): (tasks, needs_resave), with the count of uuids drawn so far
load_tasks(file, n) ==
    IF file.kind # "list"
    THEN [tasks |-> <<>>, needs_resave |-> FALSE, drawn |-> n]
    ELSE LoadLoop(file.items, n)

\* What save_tasks(tasks) writes when the write succeeds
SavedTasks(ts) ==
    [kind |-> "list", items |-> [i \in 1..Len(ts) |-> asdict(ts[i])]]

\* save_tasks(tasks): the file afterwards; ok is whether the write succeeded
save_tasks(file, ts, ok) == IF ok THEN SavedTasks(ts) ELSE file

\* Mutant: the task is stamped with the epoch
SetTimestampEpoch(ts, id, now) ==
    LET i == IndexOf([k \in 1..Len(ts) |-> ts[k].id], id)
    IN  IF i = 0 THEN ts
        ELSE [ts EXCEPT ![i].last_run_timestamp = Some(0)]

\* The loop of update_last_run_timestamp: the first task with the id gets now
SetTimestamp(ts, id, now) ==
    LET i == IndexOf([k \in 1..Len(ts) |-> ts[k].id], id)
    IN  IF i = 0 THEN ts
        ELSE [ts EXCEPT ![i].last_run_timestamp = Some(now)]

HasId(ts, id) == \E i \in 1..Len(ts) : ts[i].id = id

\* Mutant: the task is stamped in memory and the list is never saved
update_last_run_timestamp_unsaved(file, n, id, now, ok) ==
    LET l == load_tasks(file, n)
        found == HasId(l.tasks, id)
    IN  [file |-> file, ret |-> found, drawn |-> l.drawn, timed |-> found]

\* update_last_run_timestamp(task_id): the file afterwards and the value returned
update_last_run_timestamp(file, n, id, now, ok) ==
    LET l == load_tasks(file, n)
        found == HasId(l.tasks, id)
    IN  [file |-> IF found
                  THEN save_tasks(file, SetTimestamp(l.tasks, id, now), ok)
                  ELSE file,
         ret |-> found /\ ok,
         drawn |-> l.drawn,
         timed |-> found]

\* dict.update(values)
DictUpdate(old, new) ==
    {p \in old : ~\E q \in new : q[1] = p[1]} \cup new

SetParamValues(ts, id, values) ==
    LET i == IndexOf([k \in 1..Len(ts) |-> ts[k].id], id)
    IN  IF i = 0 THEN ts
        ELSE [ts EXCEPT ![i].last_param_values = DictUpdate(@, values)]

\* update_last_param_values(task_id, param_values)
update_last_param_values(file, n, id, values, ok) ==
    IF values = {}
    THEN [file |-> file, ret |-> TRUE, drawn |-> n]
    ELSE LET l == load_tasks(file, n)
             found == HasId(l.tasks, id)
         IN  [file |-> IF found
                       THEN save_tasks(file, SetParamValues(l.tasks, id, values), ok)
                       ELSE file,
              ret |-> found /\ ok,
              drawn |-> l.drawn]

----------------------------------------------------------------------------
(* storage.py: the history *)

\* load_history(): the list, [] when the file is missing or is no list
load_history(file) == IF file.kind = "list" THEN file.items ELSE <<>>

\* save_history(history): the file afterwards
save_history(file, h, ok) ==
    IF ok THEN [kind |-> "list", items |-> h] ELSE file

\* Mutant: the entry is appended and the list is never pruned
AppendedHistoryUnpruned(h, id, dir, now) ==
    Append(h, [timestamp |-> now, task_id |-> id, directory |-> dir])

\* The list add_history_entry saves: the entry appended, pruned to the cap
AppendedHistory(h, id, dir, now) ==
    LET h1 == Append(h, [timestamp |-> now, task_id |-> id, directory |-> dir])
    IN  IF Len(h1) > HISTORY_MAX_SIZE THEN LastN(h1, HISTORY_MAX_SIZE) ELSE h1

\* add_history_entry(task_id, directory): the file afterwards
add_history_entry(file, id, dir, now, ok) ==
    IF id = "" \/ dir = <<>> THEN file
    ELSE save_history(file, AppendedHistory(load_history(file), id, dir, now), ok)

----------------------------------------------------------------------------
(* utils.py: fuzzy_search_tasks *)

\* Mutant: a task that never ran counts as the most recent
TimestampKeyNullNewest(t) ==
    IF t.last_run_timestamp = <<>> THEN 3 ELSE t.last_run_timestamp[1]

\* t.last_run_timestamp or 0
TimestampKey(t) ==
    IF t.last_run_timestamp = None THEN 0 ELSE t.last_run_timestamp[1]

\* Mutant: sorted ascending and then reversed, which reverses equal timestamps
SortedByRecencyTiesReversed(ts) ==
    LET r == [k \in 1..Len(ts) |-> ts[Len(ts) + 1 - k]]
    IN  SortedDesc(r, [k \in 1..Len(r) |-> TimestampKey(r[k])])

\* The branch of an empty query: sorted by last run, most recent first
SortedByRecency(ts) ==
    SortedDesc(ts, [k \in 1..Len(ts) |-> TimestampKey(ts[k])])

\* f"{task.name} {task.description or ''} {task.command}"
Searchable(t) == <<t.name, t.description, t.command>>

\* fuzz.WRatio(query, choice)
WRatio(sc, q, choice) == sc[<<q, choice>>]

\* process.extract(query, choices, scorer, limit, score_cutoff): the positions
\* of the choices scoring at least the cutoff, best first, equal scores in
\* list order, at most limit of them
Extract(sc, q, choices, limit, cutoff) ==
    LET keep == SelectSeq([i \in 1..Len(choices) |-> i],
                          LAMBDA i : WRatio(sc, q, choices[i]) >= cutoff)
        ks == [k \in 1..Len(keep) |-> WRatio(sc, q, choices[keep[k]])]
    IN  FirstN(SortedDesc(keep, ks), limit)

\* A dict built in list order: the value of the last entry with the key
LastIndex(s, x) ==
    CHOOSE i \in 1..Len(s) : s[i] = x /\ \A j \in (i + 1)..Len(s) : s[j] # x

\* The loop over the results: each matched string goes back to a task id
\* through search_map, and an id is taken once
RECURSIVE MatchLoop(_, _, _, _)
MatchLoop(results, choices, ts, seen) ==
    IF results = <<>> THEN <<>>
    ELSE LET matched_string == choices[Head(results)]
             task_id == ts[LastIndex(choices, matched_string)].id
             take == task_id # "" /\ task_id \notin seen
             task == ts[LastIndex([k \in 1..Len(ts) |-> ts[k].id], task_id)]
         IN  IF take
             THEN <<task>> \o MatchLoop(Tail(results), choices, ts,
                                        seen \cup {task_id})
             ELSE MatchLoop(Tail(results), choices, ts, seen)

fuzzy_search_tasks(sc, q, ts, limit, cutoff) ==
    IF q = "" THEN SortedByRecency(ts)
    ELSE LET choices == [i \in 1..Len(ts) |-> Searchable(ts[i])]
         IN  MatchLoop(Extract(sc, q, choices, limit, cutoff), choices, ts, {})

----------------------------------------------------------------------------
(* tui.py: CmdPalApp *)

NoResult == [kind |-> "none"]
TaskResult(t) == [kind |-> "task", task |-> t]
TupleResult(t, v) == [kind |-> "tuple", task |-> t, values |-> v]

Ids(ts) == [k \in 1..Len(ts) |-> ts[k].id]

\* next((t for t in self.tasks if t.id == task_id), None)
TaskById(ts, id) ==
    IF HasId(ts, id) THEN Some(ts[IndexOf(Ids(ts), id)]) ELSE None

\* DataTable.is_valid_row_index
is_valid_row_index(rs, r) == 0 <= r /\ r < Len(rs)

\* The row key under the cursor, if the cursor is on a row
RowKeyAt(rs, r) == IF is_valid_row_index(rs, r) THEN Some(rs[r + 1]) ELSE None

\* _update_table, lines 198-214: the tasks to display for the query
TasksToDisplay(sc, q, ts) ==
    IF q = "" THEN SortedByRecency(ts)
    ELSE fuzzy_search_tasks(sc, q, ts, FuzzyLimit, DEFAULT_SCORE_CUTOFF)

\* Mutant: the numeric row index is reapplied, whatever the row under it held
TargetRowByIndex(oldRows, oldCursor, newIds) ==
    IF Len(newIds) > 0 THEN Max2(0, Min2(oldCursor, Len(newIds) - 1)) ELSE 0

\* Mutant: a cursor whose row is gone goes back to the top
TargetRowToTop(oldRows, oldCursor, newIds) ==
    IF is_valid_row_index(oldRows, oldCursor)
       /\ Contains(newIds, oldRows[oldCursor + 1])
    THEN IndexOf(newIds, oldRows[oldCursor + 1]) - 1
    ELSE 0

\* _update_table, lines 216-263: the cursor row after the rows were replaced
TargetRow(oldRows, oldCursor, newIds) ==
    LET current_cursor_row ==
            IF is_valid_row_index(oldRows, oldCursor) THEN oldCursor ELSE 0
        current_row_key == RowKeyAt(oldRows, current_cursor_row)
    IN  IF Len(newIds) > 0
        THEN IF current_row_key # None /\ Contains(newIds, current_row_key[1])
             THEN IndexOf(newIds, current_row_key[1]) - 1
             ELSE Max2(0, Min2(current_cursor_row, Len(newIds) - 1))
        ELSE 0

\* Mutant: the preview shows the task at the cursor's place in self.tasks
TaskAtCursorByIndex(ts, rs, r) ==
    IF is_valid_row_index(rs, r) THEN Some(ts[r + 1]) ELSE None

\* _update_table, lines 266-284: the task the preview pane shows
TaskAtCursor(ts, rs, r) ==
    IF is_valid_row_index(rs, r) THEN TaskById(ts, rs[r + 1]) ELSE None

\* DataTable.add_row raises DuplicateKey for a key the table already holds
HasDuplicate(s) == \E i, j \in 1..Len(s) : i < j /\ s[i] = s[j]

\* _update_table: the table and the preview afterwards
update_table(sc, q, ts, oldRows, oldCursor) ==
    LET newIds == Ids(TasksToDisplay(sc, q, ts))
        target == TargetRow(oldRows, oldCursor, newIds)
    IN  IF HasDuplicate(newIds)
        THEN [raised |-> TRUE, rows |-> <<>>, cursor_row |-> 0, preview |-> None]
        ELSE [raised |-> FALSE, rows |-> newIds, cursor_row |-> target,
              preview |-> TaskAtCursor(ts, newIds, target)]

\* _update_recommendations, lines 291-307: the ids of the banner
RECURSIVE RecentIds(_, _, _)
RecentIds(h, seen, n) ==
    IF h = <<>> \/ n = 0 THEN <<>>
    ELSE LET task_id == Head(h).task_id IN
         IF task_id # "" /\ task_id \notin seen
         THEN <<task_id>> \o RecentIds(Tail(h), seen \cup {task_id}, n - 1)
         ELSE RecentIds(Tail(h), seen, n)

\* Mutant: the history of every directory counts
recommendationsAnyDirectory(h, dir) ==
    RecentIds(SortedDesc(h, [k \in 1..Len(h) |-> h[k].timestamp]), {},
              RECOMMENDATIONS_COUNT)

recommendations(h, dir) ==
    LET cwd_history == SelectSeq(h, LAMBDA e : e.directory = dir)
        sorted == SortedDesc(cwd_history,
                             [k \in 1..Len(cwd_history) |-> cwd_history[k].timestamp])
    IN  RecentIds(sorted, {}, RECOMMENDATIONS_COUNT)

\* Mutant: an id that is in no task is left out of the banner
RecoNamesKnownOnly(ts, ids) ==
    LET known == SelectSeq(ids, LAMBDA tid : \E k \in 1..Len(ts) : ts[k].id = tid)
    IN  [k \in 1..Len(known) |->
            [known |-> TRUE, text |-> ts[LastIndex(Ids(ts), known[k])].name]]

\* _update_recommendations, lines 315-319: task_lookup.get(tid, fallback) for
\* each id; the fallback f"Unknown Task ID: {tid[:8]}..." is not a name
RecoNames(ts, ids) ==
    [k \in 1..Len(ids) |->
        IF \E i \in 1..Len(ts) : ts[i].id = ids[k]
        THEN [known |-> TRUE, text |-> ts[LastIndex(Ids(ts), ids[k])].name]
        ELSE [known |-> FALSE, text |-> ids[k]]]

\* _update_recommendations: the banner afterwards
update_recommendations(ts, h, dir) ==
    LET ids == recommendations(h, dir)
    IN  IF ids = <<>>
        THEN [ids |-> <<>>, names |-> <<>>, display |-> FALSE]
        ELSE [ids |-> ids, names |-> RecoNames(ts, ids), display |-> TRUE]

\* The record of an event: its name and the query and table it found
Handled(event) ==
    [event |-> event, query |-> query, rows |-> rows, cursor_row |-> cursor_row]

\* An exception in a handler ends the session: app.run() returns None
AppRaised ==
    /\ pc' = "app_exit"
    /\ result' = NoResult
    /\ log' = Append(log, "app_exception")

on_mount ==
    /\ pc = "mount"
    /\ \E ok \in BOOLEAN :
        LET l == load_tasks(tasksFile, uuidCount)
            h == load_history(historyFile)
            r == update_recommendations(l.tasks, h, launch_cwd)
            t == update_table(score, "", l.tasks, <<>>, 0)
        IN  /\ tasks' = l.tasks
            /\ uuidCount' = l.drawn
            /\ tasksFile' = IF l.needs_resave
                            THEN save_tasks(tasksFile, l.tasks, ok)
                            ELSE tasksFile
            /\ history' = h
            /\ reco_ids' = r.ids
            /\ reco_names' = r.names
            /\ reco_display' = r.display
            /\ query' = ""
            /\ rows' = t.rows
            /\ cursor_row' = t.cursor_row
            /\ preview' = t.preview
            /\ IF t.raised THEN AppRaised
               ELSE pc' = "browsing" /\ UNCHANGED <<result, log>>
    /\ last' = Handled("mount")
    /\ UNCHANGED <<historyFile, clock, envVars, mainVars>>

on_input_changed(value) ==
    /\ pc = "browsing"
    /\ value # query
    /\ LET t == update_table(score, value, tasks, rows, cursor_row)
       IN  /\ query' = value
           /\ rows' = t.rows
           /\ cursor_row' = t.cursor_row
           /\ preview' = t.preview
           /\ IF t.raised THEN AppRaised
              ELSE UNCHANGED <<pc, result, log>>
    /\ last' = Handled("input")
    /\ UNCHANGED <<tasksFile, historyFile, clock, uuidCount, envVars, mainVars,
                   tasks, history, reco_ids, reco_names,
                   reco_display>>

\* DataTable.move_cursor(row=r), and on_data_table_row_highlighted for the row
move_cursor(r) ==
    /\ cursor_row' = r
    /\ preview' = TaskAtCursor(tasks, rows, r)

action_cursor_up ==
    /\ pc = "browsing"
    /\ IF Len(rows) > 0
       THEN move_cursor(Max2(0, cursor_row - 1))
       ELSE UNCHANGED <<cursor_row, preview>>
    /\ last' = Handled("up")
    /\ UNCHANGED <<tasksFile, historyFile, clock, uuidCount, envVars, mainVars,
                   tasks, history, reco_ids, reco_names,
                   reco_display, query, rows, pc,
                   result, log>>

\* A click on row r: the DataTable moves its cursor there and posts
\* RowHighlighted, which on_data_table_row_highlighted handles
on_data_table_row_highlighted(r) ==
    /\ pc = "browsing"
    /\ is_valid_row_index(rows, r)
    /\ r # cursor_row
    /\ move_cursor(r)
    /\ last' = Handled("highlight")
    /\ UNCHANGED <<tasksFile, historyFile, clock, uuidCount, envVars, mainVars,
                   tasks, history, reco_ids, reco_names, reco_display, query,
                   rows, pc, result, log>>

\* Mutant: the cursor goes down past the last row
action_cursor_down_unclamped ==
    /\ pc = "browsing"
    /\ IF Len(rows) > 0
       THEN move_cursor(cursor_row + 1)
       ELSE UNCHANGED <<cursor_row, preview>>
    /\ last' = Handled("down")
    /\ UNCHANGED <<tasksFile, historyFile, clock, uuidCount, envVars, mainVars,
                   tasks, history, reco_ids, reco_names, reco_display, query,
                   rows, pc, result, log>>

action_cursor_down ==
    /\ pc = "browsing"
    /\ IF Len(rows) > 0
       THEN move_cursor(Min2(Len(rows) - 1, cursor_row + 1))
       ELSE UNCHANGED <<cursor_row, preview>>
    /\ last' = Handled("down")
    /\ UNCHANGED <<tasksFile, historyFile, clock, uuidCount, envVars, mainVars,
                   tasks, history, reco_ids, reco_names,
                   reco_display, query, rows, pc,
                   result, log>>

\* Mutant: the cursor row indexes self.tasks instead of naming a task id
SelectedTaskByIndex(ts, rs, r) ==
    IF is_valid_row_index(rs, r) THEN Some(ts[r + 1]) ELSE None

\* action_select_task, lines 149-160: the task the session exits with, if any
SelectedTask(ts, rs, r) ==
    IF is_valid_row_index(rs, r) THEN TaskById(ts, rs[r + 1]) ELSE None

action_select_task ==
    /\ pc = "browsing"
    /\ LET selected == SelectedTask(tasks, rows, cursor_row)
       IN  IF selected # None
           THEN pc' = "app_exit" /\ result' = TaskResult(selected[1])
           ELSE UNCHANGED <<pc, result>>
    /\ last' = Handled("enter")
    /\ UNCHANGED <<tasksFile, historyFile, clock, uuidCount, envVars, mainVars,
                   uiVars, log>>

\* Mutant: quitting returns the task shown in the preview
QuitResultPreviewed ==
    IF preview # None THEN [kind |-> "task", task |-> preview[1]]
    ELSE [kind |-> "none"]

\* The bindings of escape and ctrl+c: the session exits with no result
QuitResult == NoResult

action_quit ==
    /\ pc = "browsing"
    /\ pc' = "app_exit"
    /\ result' = QuitResult
    /\ last' = Handled("quit")
    /\ UNCHANGED <<tasksFile, historyFile, clock, uuidCount, envVars, mainVars,
                   uiVars, log>>

----------------------------------------------------------------------------
(* __main__.py: main, after app.run() returned *)

\* Lines 67 and 85 with no result: nothing is selected and nothing is run
main_no_result ==
    /\ pc = "app_exit"
    /\ result.kind = "none"
    /\ pc' = "exit_0"
    /\ UNCHANGED <<tasksFile, historyFile, clock, uuidCount, envVars, mainVars,
                   appVars, result, log>>

\* Line 68 with a Task as the result: a Task cannot be unpacked into two names,
\* the TypeError is caught at line 76 and the process exits with status 1
main_unpack_error ==
    /\ pc = "app_exit"
    /\ result.kind = "task"
    /\ pc' = "exit_1"
    /\ log' = Append(log, "error_running_tui")
    /\ UNCHANGED <<tasksFile, historyFile, clock, uuidCount, envVars, mainVars,
                   appVars, result>>

\* Lines 68-74 with a pair as the result: the pair is unpacked and the values,
\* when there are any, are saved as the task's last values
main_unpack ==
    /\ pc = "app_exit"
    /\ result.kind = "tuple"
    /\ selected_task' = Some(result.task)
    /\ param_values' = result.values
    /\ \E ok \in BOOLEAN :
        IF result.values # None
        THEN LET u == update_last_param_values(tasksFile, uuidCount,
                                               result.task.id, result.values[1], ok)
             IN  /\ tasksFile' = u.file
                 /\ uuidCount' = u.drawn
                 /\ log' = IF u.ret THEN log
                           ELSE Append(log, "warning_last_values")
        ELSE UNCHANGED <<tasksFile, uuidCount, log>>
    /\ pc' = "dispatch"
    /\ UNCHANGED <<historyFile, clock, envVars, appVars, result, spawned>>

\* Lines 85-86: run_task is called with three arguments and takes two, the
\* TypeError is not caught and the process ends with a traceback
main_dispatch ==
    /\ pc = "dispatch"
    /\ selected_task # None
    /\ pc' = "exit_1"
    /\ log' = Append(log, "type_error_run_task")
    /\ UNCHANGED <<tasksFile, historyFile, clock, uuidCount, envVars, mainVars,
                   appVars, result>>

----------------------------------------------------------------------------
(* tui.py: run_task(task, launch_cwd) *)

Home == <<"home", "user">>

\* os.path.expanduser: a leading "~" segment becomes the home directory
expanduser(path) ==
    IF path # <<>> /\ path[1] = "~" THEN Home \o Tail(path) ELSE path

\* time.time(): the clock does not go back between two readings
Tick == clock' \in {clock, clock + 1}

\* Lines 364-366
run_task_no_task ==
    /\ pc = "run_task"
    /\ selected_task = None
    /\ pc' = "returned"
    /\ log' = Append(log, "no_task")
    /\ UNCHANGED <<tasksFile, historyFile, clock, uuidCount, envVars, mainVars,
                   appVars, result>>

\* Mutant: a failed timestamp update ends the dispatch
run_task_timestamp_aborting ==
    /\ pc = "run_task"
    /\ selected_task # None
    /\ \E ok \in BOOLEAN :
        LET u == update_last_run_timestamp(tasksFile, uuidCount,
                                           selected_task[1].id, clock, ok)
        IN  /\ tasksFile' = u.file
            /\ uuidCount' = u.drawn
            /\ IF u.timed THEN Tick ELSE UNCHANGED clock
            /\ log' = IF u.ret THEN Append(log, "timestamp")
                      ELSE log \o <<"timestamp", "warning_timestamp">>
            /\ pc' = IF u.ret THEN "run_task_history" ELSE "returned"
    /\ UNCHANGED <<historyFile, envVars, mainVars, appVars, result>>

\* Lines 370-371
run_task_timestamp ==
    /\ pc = "run_task"
    /\ selected_task # None
    /\ \E ok \in BOOLEAN :
        LET u == update_last_run_timestamp(tasksFile, uuidCount,
                                           selected_task[1].id, clock, ok)
        IN  /\ tasksFile' = u.file
            /\ uuidCount' = u.drawn
            /\ IF u.timed THEN Tick ELSE UNCHANGED clock
            /\ log' = IF u.ret THEN Append(log, "timestamp")
                      ELSE log \o <<"timestamp", "warning_timestamp">>
    /\ pc' = "run_task_history"
    /\ UNCHANGED <<historyFile, envVars, mainVars, appVars, result>>

\* Mutant: the history records where the task runs
HistoryDirectoryOfTask(t, launch) == expanduser(t.cwd)

\* The directory argument of add_history_entry at line 372
HistoryDirectory(t, launch) == launch

\* Mutant: the run is not recorded in the history
run_task_history_skipped ==
    /\ pc = "run_task_history"
    /\ pc' = "run_task_cwd"
    /\ UNCHANGED <<tasksFile, historyFile, clock, uuidCount, envVars, mainVars,
                   appVars, result, log>>

\* Line 372
run_task_history ==
    /\ pc = "run_task_history"
    /\ IF selected_task[1].id = "" \/ launch_cwd = <<>>
       THEN /\ log' = log \o <<"history", "warning_history">>
            /\ UNCHANGED <<historyFile, clock>>
       ELSE /\ \E ok \in BOOLEAN :
                /\ historyFile' = add_history_entry(historyFile,
                                      selected_task[1].id,
                                      HistoryDirectory(selected_task[1], launch_cwd),
                                      clock, ok)
                /\ log' = IF ok THEN Append(log, "history")
                          ELSE log \o <<"history", "error_history">>
            /\ Tick
    /\ pc' = "run_task_cwd"
    /\ UNCHANGED <<tasksFile, uuidCount, envVars, mainVars, appVars, result>>

\* Lines 375-388: the directory is resolved and checked
run_task_cwd ==
    /\ pc = "run_task_cwd"
    /\ LET run_cwd == expanduser(selected_task[1].cwd)
       IN  IF run_cwd \in dirs
           THEN pc' = "run_task_spawn" /\ log' = Append(log, "cwd_checked")
           ELSE pc' = "returned"
                /\ log' = log \o <<"cwd_checked", "error_cwd">>
    /\ UNCHANGED <<tasksFile, historyFile, clock, uuidCount, envVars, mainVars,
                   appVars, result>>

\* What subprocess.run is given at line 391
SpawnCommand(t) == t.command
SpawnCwd(t) == expanduser(t.cwd)

\* Lines 391-403: subprocess.run is called and how it ended is reported
run_task_spawn ==
    /\ pc = "run_task_spawn"
    /\ spawned' = Append(spawned, [command |-> SpawnCommand(selected_task[1]),
                                   cwd |-> SpawnCwd(selected_task[1])])
    /\ \E outcome \in {"zero", "nonzero", "raised"} :
        log' = CASE outcome = "zero" -> Append(log, "spawn")
                 [] outcome = "nonzero" -> log \o <<"spawn", "warning_exit_status">>
                 [] outcome = "raised" -> log \o <<"spawn", "error_spawn">>
    /\ pc' = "returned"
    /\ UNCHANGED <<tasksFile, historyFile, clock, uuidCount, envVars, appVars,
                   result, selected_task, param_values>>

----------------------------------------------------------------------------
(* The stores, histories and scoring tables the runs start from *)

BuildTask ==
    [name |-> "build", description |-> "", command |-> <<"make">>,
     cwd |-> <<"~", "proj">>, parameters |-> <<>>, last_param_values |-> {}]

EchoTask ==
    [name |-> "greet", description |-> "say", command |-> <<"echo", "${a}", "${b}">>,
     cwd |-> <<"~">>, parameters |-> <<"a", "b">>,
     last_param_values |-> {<<"a", "1">>}]

Templates == {BuildTask, EchoTask}

SlotIds == <<"a", "b", "c", "d", "e", "f">>

StoredTimes == {1, 2}
Timestamps == {None} \cup {Some(t) : t \in StoredTimes}

\* A record of tasks.json
Record(json, id, tpl, ts) ==
    [json |-> json, id |-> id, name |-> tpl.name, command |-> tpl.command,
     cwd |-> tpl.cwd, description |-> tpl.description,
     last_run_timestamp |-> ts, parameters |-> tpl.parameters,
     last_param_values |-> tpl.last_param_values]

ListFile(items) == [kind |-> "list", items |-> items]

\* The stores of n well-formed records, the record of slot k having the k-th id
StoresOf(n) ==
    {ListFile([k \in 1..n |-> Record("object", SlotIds[k], c[k][1], c[k][2])]) :
        c \in [1..n -> Templates \X Timestamps]}

\* Stores that load_tasks has to repair or gives up on
SpecialStores ==
    {[kind |-> "missing", items |-> <<>>],
     [kind |-> "corrupt", items |-> <<>>],
     ListFile(<<Record("object", "", BuildTask, None),
                Record("object", "b", EchoTask, Some(1))>>),
     ListFile(<<Record("object", "a", BuildTask, Some(1)),
                Record("object", "a", EchoTask, None)>>),
     ListFile(<<Record("other", "", BuildTask, None),
                Record("object", "b", [BuildTask EXCEPT !.name = ""], None),
                Record("extra", "", EchoTask, None),
                Record("object", "d", EchoTask, Some(2))>>)}

Stores(n) == UNION {StoresOf(k) : k \in 0..n} \cup SpecialStores

WorkDir == <<"work">>
HomeProj == Home \o <<"proj">>
LaunchDirs == {WorkDir, HomeProj}

HistoryEntries ==
    {[timestamp |-> t, task_id |-> id, directory |-> d] :
        t \in StoredTimes, id \in {"a", "b"}, d \in LaunchDirs}

HistoriesOf(n) == UNION {[1..k -> HistoryEntries] : k \in 0..n}

\* The histories a session starts from: none, and one with two runs here
SessionHistoryFiles ==
    {[kind |-> "missing", items |-> <<>>],
     ListFile(<<[timestamp |-> 1, task_id |-> "b", directory |-> WorkDir],
                [timestamp |-> 2, task_id |-> "a", directory |-> WorkDir],
                [timestamp |-> 2, task_id |-> "a", directory |-> HomeProj]>>)}

ClockStarts == {3}

Queries == {"", "bui"}
NonEmptyQueries == Queries \ {""}
SearchStrings == {Searchable(t) : t \in Templates}
ScoreLevels == {40, 60, 80}
ScoreTables == [NonEmptyQueries \X SearchStrings -> ScoreLevels]

----------------------------------------------------------------------------
(* The program: cmdpal with no subcommand *)

InitIdle ==
    /\ tasks = <<>>
    /\ history = <<>>
    /\ query = ""
    /\ rows = <<>>
    /\ cursor_row = 0
    /\ preview = None
    /\ reco_ids = <<>>
    /\ reco_names = <<>>
    /\ reco_display = FALSE
    /\ selected_task = None
    /\ param_values = None
    /\ log = <<>>
    /\ spawned = <<>>
    /\ uuidCount = 0
    /\ last = [event |-> "none", query |-> "", rows |-> <<>>, cursor_row |-> 0]
    /\ start = [tasksFile |-> tasksFile, historyFile |-> historyFile,
                clock |-> clock]
    /\ search_limit = FuzzyLimit
    /\ search_cutoff = DEFAULT_SCORE_CUTOFF
    /\ matched_tasks = <<>>
    /\ proc = <<>>

Init ==
    /\ tasksFile \in Stores(MaxTasks)
    /\ historyFile \in SessionHistoryFiles
    /\ dirs = {Home, HomeProj}
    /\ clock \in ClockStarts
    /\ score \in ScoreTables
    /\ launch_cwd = WorkDir
    /\ pc = "mount"
    /\ result = NoResult
    /\ InitIdle

Next ==
    \/ on_mount
    \/ \E value \in Queries : on_input_changed(value)
    \/ action_cursor_up
    \/ action_cursor_down
    \/ \E r \in 0..(MaxTasks - 1) : on_data_table_row_highlighted(r)
    \/ action_select_task
    \/ action_quit
    \/ main_no_result
    \/ main_unpack_error

Spec == Init /\ [][Next]_vars

----------------------------------------------------------------------------
(* run_task(task, launch_cwd), called with a task of an earlier load *)

\* The tasks a caller can hold: those of a load of the store, and one whose
\* record has left the store since
StrangerTask == Task(Record("object", "z", BuildTask, None))

LoadedArgs(file) ==
    LET ts == load_tasks(file, 0).tasks
    IN  {Some(ts[k]) : k \in 1..Len(ts)} \cup {Some(StrangerTask), None}

DirChoices == {{Home, HomeProj}, {Home}, {WorkDir}}

InitRunTask ==
    /\ tasksFile \in Stores(MaxTasks)
    /\ historyFile \in SessionHistoryFiles
    /\ dirs \in DirChoices
    /\ clock \in ClockStarts
    /\ score \in {[x \in NonEmptyQueries \X SearchStrings |-> 80]}
    /\ launch_cwd \in LaunchDirs
    /\ pc = "run_task"
    /\ result = NoResult
    /\ tasks = <<>>
    /\ history = <<>>
    /\ query = ""
    /\ rows = <<>>
    /\ cursor_row = 0
    /\ preview = None
    /\ reco_ids = <<>>
    /\ reco_names = <<>>
    /\ reco_display = FALSE
    /\ param_values = None
    /\ log = <<>>
    /\ spawned = <<>>
    /\ uuidCount = load_tasks(tasksFile, 0).drawn
    /\ last = [event |-> "none", query |-> "", rows |-> <<>>, cursor_row |-> 0]
    /\ start = [tasksFile |-> tasksFile, historyFile |-> historyFile,
                clock |-> clock]
    /\ search_limit = FuzzyLimit
    /\ search_cutoff = DEFAULT_SCORE_CUTOFF
    /\ matched_tasks = <<>>
    /\ proc = <<>>
    /\ selected_task \in LoadedArgs(tasksFile)

NextRunTask ==
    \/ run_task_no_task
    \/ run_task_timestamp
    \/ run_task_history
    \/ run_task_cwd
    \/ run_task_spawn

SpecRunTask == InitRunTask /\ [][NextRunTask]_vars

----------------------------------------------------------------------------
(* main after app.run(), for every result its annotation admits *)

ParamValueChoices ==
    {None, Some({}), Some({<<"a", "1">>, <<"b", "2">>}),
     Some({<<"a", "${b}">>, <<"b", "2">>}), Some({<<"a", "1">>})}

ResultsOf(file) ==
    LET ts == load_tasks(file, 0).tasks
    IN  {NoResult}
        \cup {TaskResult(ts[k]) : k \in 1..Len(ts)}
        \cup {TupleResult(t, v) :
                 t \in {ts[k] : k \in 1..Len(ts)} \cup {StrangerTask},
                 v \in ParamValueChoices}

InitMain ==
    /\ tasksFile \in Stores(MaxTasks)
    /\ historyFile \in SessionHistoryFiles
    /\ dirs \in DirChoices
    /\ clock \in ClockStarts
    /\ score \in {[x \in NonEmptyQueries \X SearchStrings |-> 80]}
    /\ launch_cwd \in LaunchDirs
    /\ pc = "app_exit"
    /\ result \in ResultsOf(tasksFile)
    /\ InitIdle

NextMain ==
    \/ main_no_result
    \/ main_unpack_error
    \/ main_unpack
    \/ main_dispatch

SpecMain == InitMain /\ [][NextMain]_vars

----------------------------------------------------------------------------
(* storage.py: add_history_entry called again and again, one call a dispatch *)

MaxAppends == 3

\* The entry a dispatch at time t left: the tasks take turns
EntryAt(t) ==
    [timestamp |-> t, task_id |-> IF t % 2 = 0 THEN "a" ELSE "b",
     directory |-> WorkDir]

HistoryOrders == {"ascending", "descending", "newest_first"}

\* A stored list of n entries with the timestamps 1..n in the given order
HistoryOfLength(n, order) ==
    [k \in 1..n |->
        CASE order = "ascending" -> EntryAt(k)
          [] order = "descending" -> EntryAt(n + 1 - k)
          [] order = "newest_first" -> EntryAt(IF k = 1 THEN n ELSE k - 1)]

HistoryLengths == {0, 1, HISTORY_MAX_SIZE - 1, HISTORY_MAX_SIZE}

\* history.json as a call can find it: absent, unreadable, or a list up to the cap
HistoryStartFiles ==
    {[kind |-> "missing", items |-> <<>>], [kind |-> "corrupt", items |-> <<>>]}
    \cup {ListFile(HistoryOfLength(n, o)) : n \in HistoryLengths, o \in HistoryOrders}

InitHistory ==
    /\ tasksFile = [kind |-> "missing", items |-> <<>>]
    /\ historyFile \in HistoryStartFiles
    /\ dirs = {Home}
    /\ clock = HISTORY_MAX_SIZE + 1
    /\ score \in {[x \in NonEmptyQueries \X SearchStrings |-> 80]}
    /\ launch_cwd = WorkDir
    /\ pc = "storage"
    /\ result = NoResult
    /\ InitIdle

\* One call add_history_entry(task_id, directory), lines 215-237
add_history_entry_call(id, dir) ==
    /\ pc = "storage"
    /\ Len(log) < MaxAppends
    /\ IF id = "" \/ dir = <<>>
       THEN /\ log' = Append(log, "warning_history")
            /\ UNCHANGED <<historyFile, clock>>
       ELSE /\ \E ok \in BOOLEAN :
                /\ historyFile' = add_history_entry(historyFile, id, dir, clock, ok)
                /\ log' = Append(log, IF ok THEN "history" ELSE "error_history")
            /\ Tick
    /\ UNCHANGED <<tasksFile, uuidCount, envVars, mainVars, appVars, result, pc>>

NextHistory ==
    \E id \in {"a", "c", ""}, dir \in {WorkDir, HomeProj, <<>>} :
        add_history_entry_call(id, dir)

SpecHistory == InitHistory /\ [][NextHistory]_vars

----------------------------------------------------------------------------
(* _update_table and fuzzy_search_tasks, called once on a collection *)

SearchTimestamps == {None, Some(0), Some(1), Some(2)}

\* The collections of n tasks with distinct ids
CollectionsOf(n) ==
    {[k \in 1..n |-> Task(Record("object", SlotIds[k], c[k][1], c[k][2]))] :
        c \in [1..n -> Templates \X SearchTimestamps]}

Collections(n) == UNION {CollectionsOf(k) : k \in 0..n}

SearchLimits == {1, 2, FuzzyLimit}
SearchCutoffs == {DEFAULT_SCORE_CUTOFF, 80}

InitSearch ==
    /\ tasksFile = [kind |-> "missing", items |-> <<>>]
    /\ historyFile = [kind |-> "missing", items |-> <<>>]
    /\ dirs = {Home}
    /\ clock \in ClockStarts
    /\ uuidCount = 0
    /\ score \in ScoreTables
    /\ launch_cwd = WorkDir
    /\ pc = "idle"
    /\ result = NoResult
    /\ tasks \in Collections(MaxTasks)
    /\ history = <<>>
    /\ query \in Queries
    /\ rows = <<>>
    /\ cursor_row = 0
    /\ preview = None
    /\ reco_ids = <<>>
    /\ reco_names = <<>>
    /\ reco_display = FALSE
    /\ selected_task = None
    /\ param_values = None
    /\ log = <<>>
    /\ spawned = <<>>
    /\ last = [event |-> "none", query |-> "", rows |-> <<>>, cursor_row |-> 0]
    /\ start = [tasksFile |-> tasksFile, historyFile |-> historyFile,
                clock |-> clock]
    /\ search_limit \in SearchLimits
    /\ search_cutoff \in SearchCutoffs
    /\ matched_tasks = <<>>
    /\ proc = <<>>

\* One call of _update_table on an empty table
update_table_call ==
    /\ pc = "idle"
    /\ LET u == update_table(score, query, tasks, rows, cursor_row)
       IN  /\ ~u.raised
           /\ rows' = u.rows
           /\ cursor_row' = u.cursor_row
           /\ preview' = u.preview
    /\ pc' = "displayed"
    /\ UNCHANGED <<tasksFile, historyFile, clock, uuidCount, dirs, score,
                   launch_cwd, start, search_limit, search_cutoff, matched_tasks,
                   proc, mainVars, tasks, history, query, reco_ids, reco_names,
                   reco_display,
                   last, result, log>>

\* One call fuzzy_search_tasks(query, tasks, limit, score_cutoff)
fuzzy_search_tasks_call ==
    /\ pc = "idle"
    /\ matched_tasks' = fuzzy_search_tasks(score, query, tasks, search_limit,
                                           search_cutoff)
    /\ pc' = "searched"
    /\ UNCHANGED <<tasksFile, historyFile, clock, uuidCount, dirs, score,
                   launch_cwd, start, search_limit, search_cutoff, proc,
                   mainVars, appVars, result, log>>

NextSearch ==
    \/ update_table_call
    \/ fuzzy_search_tasks_call

SpecSearch == InitSearch /\ [][NextSearch]_vars

----------------------------------------------------------------------------
(* _update_recommendations, called once on a history *)

MaxHistory == 3

RecoEntries ==
    {[timestamp |-> t, task_id |-> id, directory |-> d] :
        t \in StoredTimes, id \in {"a", "b", ""}, d \in LaunchDirs}

\* Runs of more tasks than the banner holds: the ids of the runs in list
\* order, the timestamps rising, falling or all equal, and the run at place
\* p made in another directory
ManyRunIds == <<"a", "b", "c", "a", "d", "e", "f", "b">>

ManyRuns(order, p) ==
    [k \in 1..Len(ManyRunIds) |->
        [timestamp |-> CASE order = "ascending" -> k
                         [] order = "descending" -> Len(ManyRunIds) + 1 - k
                         [] order = "equal" -> 1,
         task_id |-> ManyRunIds[k],
         directory |-> IF k = p THEN HomeProj ELSE WorkDir]]

RecoHistories ==
    UNION {[1..n -> RecoEntries] : n \in 0..MaxHistory}
    \cup {ManyRuns(o, p) : o \in {"ascending", "descending", "equal"},
                           p \in 0..Len(ManyRunIds)}

\* The collections the banner takes its names from
RecoCollections ==
    {<<>>,
     <<Task(Record("object", "a", BuildTask, None))>>,
     <<Task(Record("object", "a", BuildTask, None)),
       Task(Record("object", "b", EchoTask, Some(1)))>>}

InitRecommend ==
    /\ tasksFile = [kind |-> "missing", items |-> <<>>]
    /\ historyFile = [kind |-> "missing", items |-> <<>>]
    /\ dirs = {Home}
    /\ clock \in ClockStarts
    /\ uuidCount = 0
    /\ score \in {[x \in NonEmptyQueries \X SearchStrings |-> 80]}
    /\ launch_cwd \in LaunchDirs
    /\ pc = "idle"
    /\ result = NoResult
    /\ tasks \in RecoCollections
    /\ history \in RecoHistories
    /\ query = ""
    /\ rows = <<>>
    /\ cursor_row = 0
    /\ preview = None
    /\ reco_ids = <<>>
    /\ reco_names = <<>>
    /\ reco_display = FALSE
    /\ selected_task = None
    /\ param_values = None
    /\ log = <<>>
    /\ spawned = <<>>
    /\ last = [event |-> "none", query |-> "", rows |-> <<>>, cursor_row |-> 0]
    /\ start = [tasksFile |-> tasksFile, historyFile |-> historyFile,
                clock |-> clock]
    /\ search_limit = FuzzyLimit
    /\ search_cutoff = DEFAULT_SCORE_CUTOFF
    /\ matched_tasks = <<>>
    /\ proc = <<>>

\* One call of _update_recommendations
update_recommendations_call ==
    /\ pc = "idle"
    /\ LET r == update_recommendations(tasks, history, launch_cwd)
       IN  /\ reco_ids' = r.ids
           /\ reco_names' = r.names
           /\ reco_display' = r.display
    /\ pc' = "recommended"
    /\ UNCHANGED <<tasksFile, historyFile, clock, uuidCount, envVars, mainVars,
                   tasks, history, query, rows, cursor_row, preview, last,
                   result, log>>

NextRecommend == update_recommendations_call

SpecRecommend == InitRecommend /\ [][NextRecommend]_vars

----------------------------------------------------------------------------
(* storage.py: load_tasks and save_tasks called on any store *)

MaxCalls == 3

\* Stores that make load_tasks generate ids, fill in defaults or give up
RepairStores ==
    {[kind |-> "empty", items |-> <<>>],
     [kind |-> "not_list", items |-> <<>>],
     ListFile(<<Record("object", "", BuildTask, None),
                Record("object", "", EchoTask, Some(1)),
                Record("object", "c", BuildTask, Some(2))>>),
     ListFile(<<Record("object", "", [BuildTask EXCEPT !.name = ""], None),
                Record("object", "b", EchoTask, None)>>),
     ListFile(<<Record("object", "a", EchoTask, Some(1)),
                Record("object", "b", [EchoTask EXCEPT !.command = <<>>], None),
                Record("object", "c", BuildTask, None)>>),
     ListFile(<<Record("object", "a",
                       [BuildTask EXCEPT !.parameters = NullList,
                                         !.last_param_values = NullDict],
                       Some(1))>>),
     ListFile(<<Record("object", "a", BuildTask, Some(2)),
                Record("object", "b", [EchoTask EXCEPT !.cwd = <<>>], None)>>)}

InitStore ==
    /\ tasksFile \in Stores(MaxTasks) \cup RepairStores
    /\ historyFile = [kind |-> "missing", items |-> <<>>]
    /\ dirs = {Home}
    /\ clock \in ClockStarts
    /\ score \in {[x \in NonEmptyQueries \X SearchStrings |-> 80]}
    /\ launch_cwd = WorkDir
    /\ pc = "storage"
    /\ result = NoResult
    /\ InitIdle

\* One call of load_tasks(); the log tells whether it reported a resave
load_tasks_call ==
    /\ Len(log) < MaxCalls
    /\ LET l == load_tasks(tasksFile, uuidCount)
       IN  /\ tasks' = l.tasks
           /\ uuidCount' = l.drawn
           /\ log' = Append(log, IF l.needs_resave THEN "load_resave"
                                                   ELSE "load")
    /\ pc' = "loaded"
    /\ UNCHANGED <<tasksFile, historyFile, clock, envVars, mainVars, history,
                   query, rows, cursor_row, preview, reco_ids, reco_names,
                   reco_display, last, result>>

\* One call of save_tasks(tasks) with the collection loaded last
save_tasks_call ==
    /\ pc \in {"loaded", "saved"}
    /\ Len(log) < MaxCalls
    /\ \E ok \in BOOLEAN :
          /\ tasksFile' = save_tasks(tasksFile, tasks, ok)
          /\ log' = Append(log, IF ok THEN "save" ELSE "save_failed")
    /\ pc' = "saved"
    /\ UNCHANGED <<historyFile, clock, uuidCount, envVars, mainVars, uiVars,
                   last, result>>

NextStore ==
    \/ load_tasks_call
    \/ save_tasks_call

SpecStore == InitStore /\ [][NextStore]_vars

----------------------------------------------------------------------------
(* cli.py: cmdpal add and cmdpal edit *)

MaxCommands == 2

\* _load_and_resave_if_needed(): the tasks, the file afterwards and the uuids
\* drawn; ok is whether the resave succeeds
load_and_resave_if_needed(file, n, ok) ==
    LET l == load_tasks(file, n)
    IN  [tasks |-> l.tasks,
         file |-> IF l.needs_resave THEN save_tasks(file, l.tasks, ok)
                  ELSE file,
         drawn |-> l.drawn]

\* storage.find_task_by_id: the place of the first task with the id, 0 for None
find_task_by_id(task_id, ts) ==
    LET hits == {k \in 1..Len(ts) : ts[k].id = task_id}
    IN  IF hits = {} THEN 0 ELSE CHOOSE k \in hits : \A j \in hits : k <= j

\* storage.find_tasks_by_name: the places of the tasks with the name
find_tasks_by_name(name, ts) == {k \in 1..Len(ts) : ts[k].name = name}

\* The arguments of Task(...) in add_task_cli; the other fields are defaults
NewTaskData(id, name, cmd, cwd, desc) ==
    [json |-> "object", id |-> id, name |-> name, command |-> cmd,
     cwd |-> IF cwd = <<>> THEN HomeRef ELSE cwd, description |-> desc,
     last_run_timestamp |-> None, parameters |-> NullList,
     last_param_values |-> NullDict]

\* cmdpal add --name name --cmd cmd --cwd cwd --desc desc
add_task_cli(name, cmd, cwd, desc) ==
    /\ pc \in {"shell", "exit_0", "exit_1"}
    /\ Len(log) < MaxCommands
    /\ \E ok1, ok2 \in BOOLEAN :
          LET l == load_and_resave_if_needed(tasksFile, uuidCount, ok1)
              d == NewTaskData(Uuid4(l.drawn + 1), name, cmd, cwd, desc)
          IN  /\ uuidCount' = l.drawn + 1
              /\ IF ~TaskValid(d)
                 THEN /\ tasks' = l.tasks
                      /\ tasksFile' = l.file
                      /\ log' = Append(log, "add_rejected")
                      /\ pc' = "exit_1"
                 ELSE /\ tasks' = Append(l.tasks, Task(d))
                      /\ tasksFile' = save_tasks(l.file, tasks', ok2)
                      /\ log' = Append(log, IF ok2 THEN "added"
                                                   ELSE "add_save_failed")
                      /\ pc' = IF ok2 THEN "exit_0" ELSE "exit_1"
    /\ UNCHANGED <<historyFile, clock, envVars, mainVars, history, query,
                   rows, cursor_row, preview, reco_ids, reco_names,
                   reco_display, last, result>>

\* The task after the assignments of edit_task_cli; an option not given is None
Edited(t, name, cmd, cwd, desc) ==
    [t EXCEPT !.name = IF name = None THEN @ ELSE name[1],
              !.command = IF cmd = None THEN @ ELSE cmd[1],
              !.cwd = IF cwd = None THEN @ ELSE cwd[1],
              !.description = IF desc = None THEN @ ELSE desc[1]]

\* cmdpal edit identifier [--name name] [--cmd cmd] [--cwd cwd] [--desc desc]
edit_task_cli(identifier, name, cmd, cwd, desc) ==
    /\ pc \in {"shell", "exit_0", "exit_1"}
    /\ Len(log) < MaxCommands
    /\ \E ok1, ok2 \in BOOLEAN :
          LET l == load_and_resave_if_needed(tasksFile, uuidCount, ok1)
              byId == find_task_by_id(identifier, l.tasks)
              byName == find_tasks_by_name(identifier, l.tasks)
              target == IF byId # 0 THEN byId
                        ELSE IF Cardinality(byName) = 1
                             THEN CHOOSE k \in byName : TRUE
                             ELSE 0
              updated == name # None \/ cmd # None \/ cwd # None
                           \/ desc # None
          IN  /\ uuidCount' = l.drawn
              /\ IF target = 0
                 THEN /\ tasks' = l.tasks
                      /\ tasksFile' = l.file
                      /\ log' = Append(log, IF Cardinality(byName) > 1
                                            THEN "edit_ambiguous"
                                            ELSE "edit_not_found")
                      /\ pc' = "exit_1"
                 ELSE /\ tasks' = [l.tasks EXCEPT ![target] =
                                       Edited(@, name, cmd, cwd, desc)]
                      /\ IF updated
                         THEN /\ tasksFile' = save_tasks(l.file, tasks', ok2)
                              /\ log' = Append(log, IF ok2 THEN "edited"
                                                    ELSE "edit_save_failed")
                              /\ pc' = IF ok2 THEN "exit_0" ELSE "exit_1"
                         ELSE /\ tasksFile' = l.file
                              /\ log' = Append(log, "edit_no_changes")
                              /\ pc' = "exit_0"
    /\ UNCHANGED <<historyFile, clock, envVars, mainVars, history, query,
                   rows, cursor_row, preview, reco_ids, reco_names,
                   reco_display, last, result>>

\* The stores the commands start from: every record has a name and a command
CliStores ==
    {[kind |-> "missing", items |-> <<>>],
     ListFile(<<Record("object", "", BuildTask, None),
                Record("object", "b", EchoTask, Some(1))>>)}
    \cup StoresOf(1) \cup StoresOf(2)

\* The values of the options on the command line
CliNames == {"", "test"}
CliCommands == {<<>>, <<"make", "test">>}
CliCwds == {<<>>, HomeProj}
CliDescriptions == {"say"}
CliIdentifiers == {"a", "build", "zz"}
Optional(S) == {None} \cup {Some(v) : v \in S}

InitCli ==
    /\ tasksFile \in CliStores
    /\ historyFile = [kind |-> "missing", items |-> <<>>]
    /\ dirs = {Home}
    /\ clock \in ClockStarts
    /\ score \in {[x \in NonEmptyQueries \X SearchStrings |-> 80]}
    /\ launch_cwd = WorkDir
    /\ pc = "shell"
    /\ result = NoResult
    /\ InitIdle

NextCli ==
    \/ \E name \in CliNames, cmd \in CliCommands, cwd \in CliCwds,
          desc \in CliDescriptions : add_task_cli(name, cmd, cwd, desc)
    \/ \E identifier \in CliIdentifiers, name \in Optional(CliNames),
          cmd \in Optional(CliCommands), cwd \in Optional({HomeProj}),
          desc \in Optional(CliDescriptions) :
            edit_task_cli(identifier, name, cmd, cwd, desc)

SpecCli == InitCli /\ [][NextCli]_vars

----------------------------------------------------------------------------
(* storage.py: two cmdpal processes dispatching at once.  Each calls        *)
(* update_last_run_timestamp and add_history_entry as run_task does at      *)
(* lines 370-372; each call reads its file, changes the list in memory and  *)
(* writes the file, and nothing keeps the other process out in between.     *)

Procs == {1, 2}

\* The stores and the tasks the two processes dispatch
RaceStores ==
    {ListFile(<<Record("object", "a", BuildTask, Some(1)),
                Record("object", "b", EchoTask, None)>>),
     ListFile(<<Record("object", "a", BuildTask, None)>>)}

RaceTaskIds == {"a", "b"}

Dispatching(id) ==
    [pc |-> "update_last_run_timestamp", task_id |-> id, tasks |-> <<>>,
     tasks_saved |-> "no", history |-> <<>>, history_saved |-> "no"]

InitRace ==
    /\ tasksFile \in RaceStores
    /\ historyFile \in SessionHistoryFiles
    /\ dirs = {Home, HomeProj}
    /\ clock \in ClockStarts
    /\ score \in {[x \in NonEmptyQueries \X SearchStrings |-> 80]}
    /\ launch_cwd = WorkDir
    /\ pc = "dispatching"
    /\ result = NoResult
    /\ tasks = <<>>
    /\ history = <<>>
    /\ query = ""
    /\ rows = <<>>
    /\ cursor_row = 0
    /\ preview = None
    /\ reco_ids = <<>>
    /\ reco_names = <<>>
    /\ reco_display = FALSE
    /\ selected_task = None
    /\ param_values = None
    /\ log = <<>>
    /\ spawned = <<>>
    /\ uuidCount = 0
    /\ last = [event |-> "none", query |-> "", rows |-> <<>>, cursor_row |-> 0]
    /\ start = [tasksFile |-> tasksFile, historyFile |-> historyFile,
                clock |-> clock]
    /\ search_limit = FuzzyLimit
    /\ search_cutoff = DEFAULT_SCORE_CUTOFF
    /\ matched_tasks = <<>>
    /\ proc \in {f \in [Procs -> {Dispatching(id) : id \in RaceTaskIds}] :
                    f[1].task_id = "a"}

raceFrame == <<dirs, score, launch_cwd, start, searchVars, mainVars, appVars,
               result, pc, log>>

\* update_last_run_timestamp, lines 117-123: the store is read and the task
\* is stamped in the list the process holds
update_last_run_timestamp_load(p) ==
    /\ proc[p].pc = "update_last_run_timestamp"
    /\ LET l == load_tasks(tasksFile, uuidCount)
           found == HasId(l.tasks, proc[p].task_id)
       IN  /\ uuidCount' = l.drawn
           /\ proc' = [proc EXCEPT
                  ![p].tasks = SetTimestamp(l.tasks, proc[p].task_id, clock),
                  ![p].pc = IF found THEN "save_tasks" ELSE "add_history_entry"]
           /\ IF found THEN Tick ELSE UNCHANGED clock
    /\ UNCHANGED <<tasksFile, historyFile, raceFrame>>

\* update_last_run_timestamp, lines 124-125: the list is written
update_last_run_timestamp_save(p) ==
    /\ proc[p].pc = "save_tasks"
    /\ \E ok \in BOOLEAN :
          /\ tasksFile' = save_tasks(tasksFile, proc[p].tasks, ok)
          /\ proc' = [proc EXCEPT
                 ![p].tasks_saved = IF ok THEN "ok" ELSE "failed",
                 ![p].pc = "add_history_entry"]
    /\ UNCHANGED <<historyFile, clock, uuidCount, raceFrame>>

\* add_history_entry, lines 221-234: the history is read, the entry appended
\* and the list pruned in memory
add_history_entry_load(p) ==
    /\ proc[p].pc = "add_history_entry"
    /\ proc' = [proc EXCEPT
           ![p].history = AppendedHistory(load_history(historyFile),
                                          proc[p].task_id, launch_cwd, clock),
           ![p].pc = "save_history"]
    /\ Tick
    /\ UNCHANGED <<tasksFile, historyFile, uuidCount, raceFrame>>

\* Mutant: the history is read again and the entry appended at the write
add_history_entry_save_merging(p) ==
    /\ proc[p].pc = "save_history"
    /\ \E ok \in BOOLEAN :
          /\ historyFile' =
                save_history(historyFile,
                    Append(load_history(historyFile),
                           proc[p].history[Len(proc[p].history)]), ok)
          /\ proc' = [proc EXCEPT
                 ![p].history_saved = IF ok THEN "ok" ELSE "failed",
                 ![p].pc = "done"]
    /\ UNCHANGED <<tasksFile, clock, uuidCount, raceFrame>>

\* add_history_entry, lines 236-237: the list is written
add_history_entry_save(p) ==
    /\ proc[p].pc = "save_history"
    /\ \E ok \in BOOLEAN :
          /\ historyFile' = save_history(historyFile, proc[p].history, ok)
          /\ proc' = [proc EXCEPT
                 ![p].history_saved = IF ok THEN "ok" ELSE "failed",
                 ![p].pc = "done"]
    /\ UNCHANGED <<tasksFile, clock, uuidCount, raceFrame>>

NextRace ==
    \/ \E p \in Procs : update_last_run_timestamp_load(p)
    \/ \E p \in Procs : update_last_run_timestamp_save(p)
    \/ \E p \in Procs : add_history_entry_load(p)
    \/ \E p \in Procs : add_history_entry_save(p)

SpecRace == InitRace /\ [][NextRace]_vars

----------------------------------------------------------------------------
(* run_task(task, launch_cwd), and then cmdpal started again in the same    *)
(* directory: the session that follows a dispatch, up to its first table    *)

\* The stores the dispatch finds
NextSessionStores == UNION {StoresOf(n) : n \in 0..2} \cup SpecialStores

\* The clock at the dispatch: equal to the latest stored time, or after it
NextSessionClocks == {2, 3}

InitNextSession ==
    /\ tasksFile \in NextSessionStores
    /\ historyFile \in SessionHistoryFiles
    /\ dirs \in {{Home, HomeProj}, {WorkDir}}
    /\ clock \in NextSessionClocks
    /\ score \in {[x \in NonEmptyQueries \X SearchStrings |-> 80]}
    /\ launch_cwd \in LaunchDirs
    /\ pc = "run_task"
    /\ result = NoResult
    /\ tasks = <<>>
    /\ history = <<>>
    /\ query = ""
    /\ rows = <<>>
    /\ cursor_row = 0
    /\ preview = None
    /\ reco_ids = <<>>
    /\ reco_names = <<>>
    /\ reco_display = FALSE
    /\ param_values = None
    /\ log = <<>>
    /\ spawned = <<>>
    /\ uuidCount = load_tasks(tasksFile, 0).drawn
    /\ last = [event |-> "none", query |-> "", rows |-> <<>>, cursor_row |-> 0]
    /\ start = [tasksFile |-> tasksFile, historyFile |-> historyFile,
                clock |-> clock]
    /\ search_limit = FuzzyLimit
    /\ search_cutoff = DEFAULT_SCORE_CUTOFF
    /\ matched_tasks = <<>>
    /\ proc = <<>>
    /\ selected_task \in LoadedArgs(tasksFile)

\* cmdpal is started again where it was started before: main runs the app
start_session ==
    /\ pc = "returned"
    /\ pc' = "mount"
    /\ UNCHANGED <<tasksFile, historyFile, clock, uuidCount, envVars, mainVars,
                   appVars, result, log>>

NextNextSession ==
    \/ run_task_no_task
    \/ run_task_timestamp
    \/ run_task_history
    \/ run_task_cwd
    \/ run_task_spawn
    \/ start_session
    \/ on_mount

SpecNextSession == InitNextSession /\ [][NextNextSession]_vars

----------------------------------------------------------------------------
(* Vocabulary of the properties *)

\* The id on row r of the rows rs, if r is a row
RowUnder(rs, r) == IF r \in 0..(Len(rs) - 1) THEN <<rs[r + 1]>> ELSE <<>>

InRows(rs, id) == \E k \in 1..Len(rs) : rs[k] = id

\* The table has just been recomputed by _update_table and the session goes on
Recomputed == pc = "browsing" /\ last.event \in {"mount", "input"}

KeyBefore == RowUnder(last.rows, last.cursor_row)

----------------------------------------------------------------------------
(* C1 *)

\* C1 -- Cursor identity: after every recomputation of the rows, if the task
\* id that was under the cursor before it is among the new rows, the cursor
\* is on the row holding that id.
C1_CursorIdentity ==
    (Recomputed /\ KeyBefore # <<>> /\ InRows(rows, KeyBefore[1]))
        => RowUnder(rows, cursor_row) = KeyBefore

\* The id under the cursor survived a change of the filter text on another
\* row than its old one, and the old index now holds another id
C1_Witness ==
    /\ Recomputed
    /\ last.event = "input"
    /\ KeyBefore # <<>>
    /\ InRows(rows, KeyBefore[1])
    /\ cursor_row # last.cursor_row
    /\ RowUnder(rows, last.cursor_row) # <<>>
    /\ RowUnder(rows, last.cursor_row) # KeyBefore
    /\ RowUnder(rows, cursor_row) = KeyBefore

----------------------------------------------------------------------------
(* C2 *)

\* C2 -- Cursor fallback: after every recomputation of the rows where the id
\* that was under the cursor is not among the new rows (or no row was under
\* the cursor), the cursor is on the previous row index clamped into
\* [0, rowCount - 1], and on no row when there are no rows.
C2_CursorFallback ==
    (Recomputed /\ (KeyBefore = <<>> \/ ~InRows(rows, KeyBefore[1])))
        => IF rows = <<>>
           THEN RowUnder(rows, cursor_row) = <<>>
           ELSE /\ last.cursor_row <= Len(rows) - 1 => cursor_row = last.cursor_row
                /\ last.cursor_row > Len(rows) - 1 => cursor_row = Len(rows) - 1

\* The row under the cursor was filtered out while the cursor was below the
\* top, and the cursor stayed on its index below the top
C2_Witness ==
    /\ Recomputed
    /\ last.event = "input"
    /\ KeyBefore # <<>>
    /\ ~InRows(rows, KeyBefore[1])
    /\ last.cursor_row >= 1
    /\ cursor_row >= 1
    /\ RowUnder(rows, cursor_row) # <<>>

----------------------------------------------------------------------------
(* C3 *)

DispatchSteps == <<"timestamp", "history", "cwd_checked", "spawn">>

\* The dispatch steps of the log, in the order they happened
StepsDone ==
    SelectSeq(log, LAMBDA e : \E k \in 1..Len(DispatchSteps) : DispatchSteps[k] = e)

\* C3 -- Dispatch ordering: in every run of run_task for a task the steps
\* happen in the order timestamp update, history append, working-directory
\* check, spawn; nothing is spawned before both bookkeeping steps were
\* attempted, and nothing is spawned twice.
C3_DispatchOrdering ==
    /\ Len(StepsDone) <= Len(DispatchSteps)
    /\ StepsDone = SubSeq(DispatchSteps, 1, Min2(Len(StepsDone), Len(DispatchSteps)))
    /\ Len(spawned) <= 1
    /\ spawned # <<>> => Len(StepsDone) = Len(DispatchSteps)

\* A run that went through all four steps and spawned the command
C3_Witness ==
    /\ pc = "returned"
    /\ StepsDone = DispatchSteps
    /\ Len(spawned) = 1

----------------------------------------------------------------------------
(* C4 *)

\* The working directory of run_task's task does not exist
CwdMissing ==
    /\ selected_task # None
    /\ LET cwd == selected_task[1].cwd
       IN  (IF cwd[1] = "~" THEN Home \o Tail(cwd) ELSE cwd) \notin dirs

\* The store holds the task with a last run at or after the start of the run
TimestampStored ==
    /\ tasksFile.kind = "list"
    /\ \E k \in 1..Len(tasksFile.items) :
        /\ tasksFile.items[k].id = selected_task[1].id
        /\ tasksFile.items[k].last_run_timestamp # <<>>
        /\ tasksFile.items[k].last_run_timestamp[1] >= start.clock

\* The history ends with an entry of this run for the task
HistoryStored ==
    /\ historyFile.kind = "list"
    /\ historyFile.items # <<>>
    /\ LET e == historyFile.items[Len(historyFile.items)]
       IN  /\ e.task_id = selected_task[1].id
           /\ e.directory = launch_cwd
           /\ e.timestamp >= start.clock
    /\ \/ start.historyFile.kind # "list"
       \/ Len(historyFile.items) = Len(start.historyFile.items) + 1

Logged(e) == \E k \in 1..Len(log) : log[k] = e

----------------------------------------------------------------------------
(* C5 *)

\* The session has ended with a task as its result
SessionSelected == result.kind # "none"

\* The parameter values the session's result carries, if any
ValuesOf(r) == IF r.kind = "tuple" THEN r.values ELSE <<>>

ProcessEnded == pc \in {"exit_0", "exit_1"}

ExpandedCwd(t) == IF t.cwd[1] = "~" THEN Home \o Tail(t.cwd) ELSE t.cwd

\* C5 -- End-to-end selection to execution: when the user confirms a row whose
\* task has no parameters, the task's literal command is spawned in the task's
\* cwd with the leading home reference expanded, after the session returned
\* its result to the entry point.
C5_ConfirmedTaskIsExecuted ==
    (ProcessEnded /\ SessionSelected /\ result.task.parameters = <<>>
        /\ ExpandedCwd(result.task) \in dirs)
        => spawned = <<[command |-> result.task.command,
                        cwd |-> ExpandedCwd(result.task)]>>

----------------------------------------------------------------------------
(* C6 *)

\* C6 -- Confirm without parameters: confirming while the cursor is on a row
\* ends the session with the task of the collection whose id is the id of
\* that row, and no parameter values; confirming when there are no rows
\* leaves the session browsing.
C6_ConfirmSelectsRowTask ==
    last.event = "enter"
        => IF KeyBefore # <<>>
           THEN /\ pc # "browsing"
                /\ SessionSelected
                /\ ValuesOf(result) = <<>>
                /\ result.task.id = KeyBefore[1]
                /\ \E k \in 1..Len(tasks) :
                      /\ tasks[k] = result.task
                      /\ \A j \in 1..(k - 1) : tasks[j].id # KeyBefore[1]
           ELSE pc = "browsing" /\ result.kind = "none"

\* A task without parameters was confirmed on a row below the top while the
\* rows were in another order than the collection
C6_Witness ==
    /\ last.event = "enter"
    /\ KeyBefore # <<>>
    /\ last.cursor_row >= 1
    /\ SessionSelected
    /\ result.task.parameters = <<>>
    /\ tasks[last.cursor_row + 1].id # KeyBefore[1]

----------------------------------------------------------------------------
(* C7 *)

\* The task of the collection on the row that was under the cursor has
\* parameter definitions
ParameterisedRowBefore ==
    /\ KeyBefore # <<>>
    /\ \E k \in 1..Len(tasks) :
        /\ tasks[k].id = KeyBefore[1]
        /\ \A j \in 1..(k - 1) : tasks[j].id # KeyBefore[1]
        /\ tasks[k].parameters # <<>>

\* C7 -- Confirm with parameters: confirming a row whose task has parameter
\* definitions does not end the session; it opens the parameter prompt.
C7_ConfirmWithParametersOpensPrompt ==
    (last.event = "enter" /\ ParameterisedRowBefore) => pc = "parameter_prompt"

----------------------------------------------------------------------------
(* C8 *)

\* C8 -- ParameterPrompt cancel: a parameter prompt stands between the
\* confirm of a parameterised task and the end of the session, and cancelling
\* it leaves the session browsing with the query text and the cursor as they
\* were, nothing executed and no timestamp or history changed.
C8_PromptCancelReturnsToBrowsing ==
    (last.event = "enter" /\ ParameterisedRowBefore /\ ValuesOf(result) = <<>>)
        => /\ pc \in {"parameter_prompt", "browsing"}
           /\ query = last.query
           /\ cursor_row = last.cursor_row
           /\ spawned = <<>>
           /\ historyFile = start.historyFile

----------------------------------------------------------------------------
(* C9 *)

\* Every stored record has the last run of a record the process found in the
\* store: the same record, or the record that had no id yet
TimestampsAsFound ==
    tasksFile.kind = "list" /\ start.tasksFile.kind = "list"
        => \A k \in 1..Len(tasksFile.items) :
             \E j \in 1..Len(start.tasksFile.items) :
                LET now == tasksFile.items[k]
                    was == start.tasksFile.items[j]
                IN  /\ was.id \in {now.id, ""}
                    /\ was.name = now.name
                    /\ was.last_run_timestamp = now.last_run_timestamp

\* C9 -- Global cancel: the cancel event (Escape or Ctrl+C) ends the session
\* with no result, and afterwards no task is dispatched: no last_run_timestamp
\* is updated, no history entry is appended and nothing is spawned.
C9_CancelEndsWithNothing ==
    last.event = "quit"
        => /\ pc \in {"app_exit", "exit_0"}
           /\ result.kind = "none"
           /\ spawned = <<>>
           /\ historyFile = start.historyFile
           /\ TimestampsAsFound
           /\ StepsDone = <<>>

\* The process has ended after a cancel on a row of a non-empty table
C9_Witness ==
    /\ last.event = "quit"
    /\ pc = "exit_0"
    /\ KeyBefore # <<>>
    /\ last.query # ""

----------------------------------------------------------------------------
(* C10 *)

\* The word "${name}" of a parameter name
Placeholder(name) ==
    CASE name = "a" -> "${a}"
      [] name = "b" -> "${b}"
      [] OTHER -> "${}"

\* The template with each placeholder that has a value replaced by its value,
\* every word of the template replaced at most once
Substitute(template, values) ==
    [k \in 1..Len(template) |->
        IF \E p \in values : Placeholder(p[1]) = template[k]
        THEN (CHOOSE p \in values : Placeholder(p[1]) = template[k])[2]
        ELSE template[k]]

----------------------------------------------------------------------------
(* C11 *)

\* The least timestamp among the entries of h and the timestamp t
OldestOf(h, t) ==
    CHOOSE m \in {h[k].timestamp : k \in 1..Len(h)} \cup {t} :
        \A k \in 1..Len(h) : m <= h[k].timestamp /\ m <= t

\* How many entries of h are at least as old as m
CountOldest(h, m) == Cardinality({k \in 1..Len(h) : h[k].timestamp <= m})

\* The first call has appended to a history that was full
AppendedToFull ==
    /\ log = <<"history">>
    /\ start.historyFile.kind = "list"
    /\ Len(start.historyFile.items) = HISTORY_MAX_SIZE

\* C11 -- History cap on append: appending one entry to a history of 200
\* entries stores exactly 200 entries, the new entry among them, and of the
\* 201 entries the one dropped is one with the oldest timestamp, whatever the
\* order of the stored list.
C11_CapKeepsMostRecent ==
    AppendedToFull
        => LET old == start.historyFile.items
               new == historyFile.items
               added == new[Len(new)]
               m == OldestOf(old, added.timestamp)
           IN  /\ Len(new) = HISTORY_MAX_SIZE
               /\ added.timestamp >= start.clock
               /\ CountOldest(new, m) = CountOldest(old, m)
                     + (IF added.timestamp <= m THEN 1 ELSE 0) - 1

\* The same for a stored list that is in the order of its timestamps
C11_AscendingCapKeepsMostRecent ==
    (AppendedToFull
        /\ \A k \in 1..(HISTORY_MAX_SIZE - 1) :
              start.historyFile.items[k].timestamp
                  <= start.historyFile.items[k + 1].timestamp)
        => C11_CapKeepsMostRecent

----------------------------------------------------------------------------
(* C12 *)

\* The step writes history.json with at most 200 entries: entries the file
\* held, from some position to its end, unchanged and in their order, and one
\* new entry after them
WritesCappedSuffix ==
    LET old == load_history(historyFile)
        new == historyFile'.items
    IN  /\ historyFile'.kind = "list"
        /\ new # <<>>
        /\ Len(new) <= HISTORY_MAX_SIZE
        /\ \E d \in 0..Len(old) :
              SubSeq(new, 1, Len(new) - 1) = SubSeq(old, d + 1, Len(old))

\* C12 -- History bound and immutability: after any sequence of dispatches
\* the stored history holds at most 200 entries, every write of the history
\* stores at most 200 entries, and every stored entry that is still present
\* is unchanged and in the same relative order: entries are only appended at
\* the end and dropped from the front.
C12_HistoryBoundedAppendOnly ==
    /\ [](historyFile.kind = "list" => Len(historyFile.items) <= HISTORY_MAX_SIZE)
    /\ [][historyFile' # historyFile => WritesCappedSuffix]_vars

\* Two dispatches were appended to a full history, which dropped its first two
\* entries and is full again
C12_Witness ==
    /\ start.historyFile.kind = "list"
    /\ Len(start.historyFile.items) = HISTORY_MAX_SIZE
    /\ Len(SelectSeq(log, LAMBDA e : e = "history")) = 2
    /\ Len(historyFile.items) = HISTORY_MAX_SIZE
    /\ historyFile.items[1] = start.historyFile.items[3]
    /\ historyFile.items[HISTORY_MAX_SIZE].timestamp >= start.clock

----------------------------------------------------------------------------
(* C13 *)

\* C13 -- History directory: the history entry a dispatch appends records the
\* directory the tool was launched from, not the working directory of the
\* chosen task, and the id of the chosen task.
C13_HistoryRecordsLaunchDirectory ==
    (selected_task # None /\ historyFile # start.historyFile)
        => LET h == historyFile.items
               e == h[Len(h)]
           IN  /\ historyFile.kind = "list"
               /\ h = load_history(start.historyFile) \o <<e>>
               /\ e.directory = launch_cwd
               /\ e.task_id = selected_task[1].id

\* A finished dispatch launched from another directory than the one the task
\* ran in, with its history entry
C13_Witness ==
    /\ pc = "returned"
    /\ selected_task # None
    /\ spawned # <<>>
    /\ spawned[1].cwd # launch_cwd
    /\ historyFile # start.historyFile
    /\ historyFile.items[Len(historyFile.items)].directory = launch_cwd

----------------------------------------------------------------------------
(* C14 *)

\* run_task has returned and the store holds no timestamp of this run for
\* the task
TimestampNotPersisted ==
    /\ pc = "returned"
    /\ selected_task # None
    /\ ~TimestampStored

\* The command was spawned once, if the working directory exists
SpawnedIfCwdExists ==
    ~CwdMissing
        => spawned = <<[command |-> selected_task[1].command,
                        cwd |-> expanduser(selected_task[1].cwd)]>>

----------------------------------------------------------------------------
(* C15 *)

\* The id of run_task's task is the id of no record of the store
VanishedId ==
    /\ selected_task # None
    /\ \A k \in 1..Len(start.tasksFile.items) :
          start.tasksFile.items[k].id # selected_task[1].id

\* C15 -- Vanished task id: an update of the last run of a task id that is no
\* longer in the stored collection is a silent no-op: the store is left
\* unchanged and no warning reaches the user.
C15_VanishedIdIsSilent ==
    (pc = "returned" /\ VanishedId)
        => /\ tasksFile = start.tasksFile
           /\ ~Logged("warning_timestamp")

----------------------------------------------------------------------------
(* C16 *)

\* The record now is the record was, but for the last run if it is the record
\* of the task id
SameButLastRun(now, was, id) ==
    \/ now = was
    \/ /\ was.id = id
       /\ now = [was EXCEPT !.last_run_timestamp = now.last_run_timestamp]

\* C16 -- Core never deletes or rewrites other data: after a dispatch the
\* stored collection has the same records in the same order as before,
\* differing only in the last_run_timestamp of the chosen task, for any
\* stored collection, records that load skips as malformed included.
C16_DispatchKeepsOtherRecords ==
    (pc = "returned" /\ selected_task # None /\ start.tasksFile.kind = "list")
        => /\ tasksFile.kind = "list"
           /\ Len(tasksFile.items) = Len(start.tasksFile.items)
           /\ \A k \in 1..Len(tasksFile.items) :
                 SameButLastRun(tasksFile.items[k], start.tasksFile.items[k],
                                selected_task[1].id)

\* The same for the stores in which load_tasks skips or repairs no record
C16_WellFormedStoreKeepsOtherRecords ==
    (\A k \in 1..Len(start.tasksFile.items) :
        LET d == start.tasksFile.items[k]
        IN  d.json = "object" /\ d.id # "" /\ TaskValid(d))
        => C16_DispatchKeepsOtherRecords

----------------------------------------------------------------------------
(* C17 *)

\* The place in the collection of the task with the id
PlaceOf(id) == IndexOf(Ids(tasks), id)

\* The last run of the task with the id, never counting as 0
RunOf(id) ==
    LET t == tasks[PlaceOf(id)]
    IN  IF t.last_run_timestamp = <<>> THEN 0 ELSE t.last_run_timestamp[1]

\* The ids are those of all tasks, each once, by last run descending, and
\* tasks of equal last run in the order of the collection
DefaultOrdered(ids) ==
    /\ Len(ids) = Len(tasks)
    /\ \A k \in 1..Len(ids) : PlaceOf(ids[k]) # 0
    /\ \A k, l \in 1..Len(ids) :
          k < l => /\ ids[k] # ids[l]
                   /\ \/ RunOf(ids[k]) > RunOf(ids[l])
                      \/ /\ RunOf(ids[k]) = RunOf(ids[l])
                         /\ PlaceOf(ids[k]) < PlaceOf(ids[l])

\* C17 -- Default ordering: with an empty query the displayed rows are all
\* tasks of the collection, ordered by last_run_timestamp descending with null
\* treated as 0, and tasks with equal timestamps keep the collection's order;
\* fuzzy_search_tasks returns the same order for an empty query.
C17_DefaultOrdering ==
    /\ (pc = "displayed" /\ query = "") => DefaultOrdered(rows)
    /\ (pc = "searched" /\ query = "") => DefaultOrdered(Ids(matched_tasks))

\* Rows in another order than the collection, with two tasks of equal last
\* run among them
C17_Witness ==
    /\ pc = "displayed"
    /\ query = ""
    /\ rows # Ids(tasks)
    /\ \E k, l \in 1..Len(rows) :
          /\ k < l
          /\ RunOf(rows[k]) = RunOf(rows[l])
          /\ RunOf(rows[k]) > 0

----------------------------------------------------------------------------
(* C18 *)

NeverRun(id) == tasks[PlaceOf(id)].last_run_timestamp = <<>>

\* C18 (as claimed) -- Never-run tasks last: in the default ordering every
\* task with a null last_run_timestamp is placed after every task with a
\* non-null last_run_timestamp, non-null timestamps equal to 0 included.
C18_NeverRunAfterEveryRun ==
    (pc = "displayed" /\ query = "")
        => \A k, l \in 1..Len(rows) :
              (NeverRun(rows[k]) /\ ~NeverRun(rows[l])) => l < k

\* C18 (amended) -- In the default ordering every task with a null
\* last_run_timestamp is placed after every task with a last_run_timestamp
\* greater than 0; a task with the timestamp 0 counts as never run and keeps
\* its place in the collection among the never-run tasks.
C18_NeverRunAfterEveryPositiveRun ==
    (pc = "displayed" /\ query = "")
        => \A k, l \in 1..Len(rows) :
              /\ (NeverRun(rows[k]) /\ RunOf(rows[l]) > 0) => l < k
              /\ (RunOf(rows[k]) = 0 /\ RunOf(rows[l]) = 0 /\ k < l)
                    => PlaceOf(rows[k]) < PlaceOf(rows[l])

\* A never-run task that is before a task that ran in the collection and
\* after it in the rows
C18_Witness ==
    /\ pc = "displayed"
    /\ query = ""
    /\ \E k, l \in 1..Len(rows) :
          /\ NeverRun(rows[k])
          /\ RunOf(rows[l]) > 0
          /\ l < k
          /\ PlaceOf(rows[k]) < PlaceOf(rows[l])

----------------------------------------------------------------------------
(* C19 *)

ScoreOf(t) == score[<<query, <<t.name, t.description, t.command>>>>]

\* C19 -- Fuzzy ranking: for a non-empty query every task fuzzy_search_tasks
\* returns has a score of at least the cutoff, the result is sorted
\* non-increasing by score with tasks of equal score in the order of the
\* collection, and the result holds at most limit tasks.
C19_FuzzyRanking ==
    (pc = "searched" /\ query # "")
        => /\ Len(matched_tasks) <= search_limit
           /\ \A k \in 1..Len(matched_tasks) :
                 ScoreOf(matched_tasks[k]) >= search_cutoff
           /\ \A k, l \in 1..Len(matched_tasks) :
                 k < l => \/ ScoreOf(matched_tasks[k]) > ScoreOf(matched_tasks[l])
                          \/ /\ ScoreOf(matched_tasks[k]) = ScoreOf(matched_tasks[l])
                             /\ PlaceOf(matched_tasks[k].id) < PlaceOf(matched_tasks[l].id)

\* No two tasks of the collection have the same searchable string
DistinctStrings ==
    \A i, j \in 1..Len(tasks) :
        i # j => <<tasks[i].name, tasks[i].description, tasks[i].command>>
                 # <<tasks[j].name, tasks[j].description, tasks[j].command>>

\* The same for the collections of tasks with distinct searchable strings
C19_DistinctStringsFuzzyRanking == DistinctStrings => C19_FuzzyRanking

----------------------------------------------------------------------------
(* C20 *)

TimesIn(s, id) == Cardinality({k \in 1..Len(s) : s[k].id = id})

\* C20 -- Results keyed by task id: when two distinct tasks have the same
\* searchable string and that string scores at least the cutoff, both tasks
\* are in the result of fuzzy_search_tasks, each exactly once (the limit
\* being no less than the number of tasks).
C20_SameStringTasksBothReturned ==
    (pc = "searched" /\ query # "" /\ search_limit >= Len(tasks))
        => \A i, j \in 1..Len(tasks) :
              (/\ i # j
               /\ <<tasks[i].name, tasks[i].description, tasks[i].command>>
                    = <<tasks[j].name, tasks[j].description, tasks[j].command>>
               /\ ScoreOf(tasks[i]) >= search_cutoff)
                  => /\ TimesIn(matched_tasks, tasks[i].id) = 1
                     /\ TimesIn(matched_tasks, tasks[j].id) = 1

----------------------------------------------------------------------------
(* C21 *)

\* The runs of the history made in the launch directory for some task
RunsHere == {k \in 1..Len(history) :
                history[k].directory = launch_cwd /\ history[k].task_id # ""}

IdsHere == {history[k].task_id : k \in RunsHere}

\* The time of the most recent run of the task in the launch directory
LatestHere(id) ==
    CHOOSE t \in {history[k].timestamp : k \in {j \in RunsHere : history[j].task_id = id}} :
        \A k \in RunsHere : history[k].task_id = id => history[k].timestamp <= t

\* C21 -- Recommendations: for any history and launch directory the
\* recommended ids are at most 5, all distinct, each the id of an entry whose
\* directory is the launch directory, ordered by the timestamp of their most
\* recent such entry, most recent first, and no such id is left out while
\* fewer than 5 are returned.
C21_Recommendations ==
    pc = "recommended"
        => /\ Len(reco_ids) <= RECOMMENDATIONS_COUNT
           /\ \A k, l \in 1..Len(reco_ids) : k # l => reco_ids[k] # reco_ids[l]
           /\ \A k \in 1..Len(reco_ids) : reco_ids[k] \in IdsHere
           /\ \A k, l \in 1..Len(reco_ids) :
                 k < l => LatestHere(reco_ids[k]) >= LatestHere(reco_ids[l])
           /\ Len(reco_ids) < RECOMMENDATIONS_COUNT
                 => \A id \in IdsHere : \E k \in 1..Len(reco_ids) : reco_ids[k] = id
           /\ \A id \in IdsHere :
                 (\A k \in 1..Len(reco_ids) : reco_ids[k] # id)
                    => \A k \in 1..Len(reco_ids) :
                          LatestHere(reco_ids[k]) >= LatestHere(id)

\* Five ids are recommended out of more, in another order than their first
\* runs in the list, with a run elsewhere passed over
C21_Witness ==
    /\ pc = "recommended"
    /\ Len(reco_ids) = RECOMMENDATIONS_COUNT
    /\ Cardinality(IdsHere) > RECOMMENDATIONS_COUNT
    /\ reco_ids[1] # history[1].task_id
    /\ \E k \in 1..Len(history) : history[k].directory # launch_cwd

----------------------------------------------------------------------------
(* C30 *)

\* C30 -- Recommendation banner visibility: the banner is hidden exactly when
\* the recommended id list is empty, which is when no history entry with a
\* non-empty task id matches the launch directory; a recommended id that is
\* in no task of the collection is still listed, with the fallback
\* placeholder for a name, and a task's id with the task's name.
C30_BannerVisibility ==
    pc = "recommended"
        => /\ reco_display <=> reco_ids # <<>>
           /\ reco_display <=> IdsHere # {}
           /\ Len(reco_names) = Len(reco_ids)
           /\ \A k \in 1..Len(reco_ids) :
                 IF \E i \in 1..Len(tasks) : tasks[i].id = reco_ids[k]
                 THEN /\ reco_names[k].known
                      /\ \E i \in 1..Len(tasks) :
                            /\ tasks[i].id = reco_ids[k]
                            /\ tasks[i].name = reco_names[k].text
                 ELSE /\ ~reco_names[k].known
                      /\ reco_names[k].text = reco_ids[k]

\* The banner is shown with the name of a task and the placeholder of an id
\* that is in no task
C30_Witness ==
    /\ pc = "recommended"
    /\ reco_display
    /\ \E k, l \in 1..Len(reco_names) :
          reco_names[k].known /\ ~reco_names[l].known

----------------------------------------------------------------------------
(* C28 *)

\* C28 -- Preview consistency: after every handled event (filter text change,
\* cursor up, cursor down, row highlight) the preview pane shows the command
\* and cwd of the task whose id is on the row under the cursor, and the empty
\* placeholder exactly when there is no row under the cursor.
C28_PreviewConsistency ==
    pc = "browsing"
        => IF RowUnder(rows, cursor_row) = <<>>
           THEN preview = <<>>
           ELSE /\ preview # <<>>
                /\ preview[1].id = rows[cursor_row + 1]
                /\ \E k \in 1..Len(tasks) :
                      /\ tasks[k].id = rows[cursor_row + 1]
                      /\ tasks[k].command = preview[1].command
                      /\ tasks[k].cwd = preview[1].cwd

\* The cursor was moved to a row below the top whose task is at another place
\* in the collection, and the preview shows that task
C28_Witness ==
    /\ pc = "browsing"
    /\ last.event \in {"down", "highlight"}
    /\ cursor_row >= 1
    /\ preview # <<>>
    /\ preview[1].id = rows[cursor_row + 1]
    /\ tasks[cursor_row + 1].id # rows[cursor_row + 1]
    /\ tasks[cursor_row + 1].command # preview[1].command

----------------------------------------------------------------------------
(* C29 *)

\* C29 -- Cursor in bounds: after any sequence of filter text changes,
\* cursor-up and cursor-down events, whenever there are rows the cursor index
\* lies in [0, rowCount - 1]; cursor-up at row 0 and cursor-down at the last
\* row leave the cursor where it is, and both are no-ops when there are no
\* rows.
C29_CursorInBounds ==
    pc = "browsing"
        => /\ rows # <<>> => cursor_row \in 0..(Len(rows) - 1)
           /\ (last.event = "up" /\ last.cursor_row = 0) => cursor_row = 0
           /\ (last.event = "down" /\ last.rows # <<>>
                  /\ last.cursor_row = Len(last.rows) - 1)
                 => cursor_row = last.cursor_row
           /\ (last.event \in {"up", "down"} /\ last.rows = <<>>)
                 => /\ cursor_row = last.cursor_row
                    /\ rows = <<>>
                    /\ preview = <<>>

\* Cursor-down was handled on the last of several rows
C29_Witness ==
    /\ pc = "browsing"
    /\ last.event = "down"
    /\ Len(rows) >= 2
    /\ last.cursor_row = Len(rows) - 1
    /\ cursor_row = last.cursor_row

----------------------------------------------------------------------------
(* C22 *)

\* The entries of the store that are JSON objects
IsDict(d) == d.json # "other"

\* The records load_tasks makes a Task of
WellFormed(d) == d.json = "object" /\ d.name # "" /\ d.command # <<>>

StoredIds(file) == {file.items[k].id : k \in 1..Len(file.items)} \ {""}

JustLoaded == pc = "loaded" /\ tasksFile.kind = "list"

ResaveReported == log[Len(log)] = "load_resave"

\* C22 -- Load assigns ids: load() gives every record lacking a non-empty id
\* a freshly generated id, distinct from all other ids in the returned
\* collection; it reports resave-needed exactly when at least one id was
\* generated; records that already have a non-empty id keep it.
C22_LoadAssignsIds ==
    JustLoaded =>
        LET kept == SelectSeq(tasksFile.items, WellFormed)
        IN  /\ Len(tasks) = Len(kept)
            /\ \A k \in 1..Len(tasks) :
                  IF kept[k].id # ""
                  THEN tasks[k].id = kept[k].id
                  ELSE /\ tasks[k].id # ""
                       /\ tasks[k].id \notin StoredIds(tasksFile)
                       /\ \A j \in 1..Len(tasks) :
                             j # k => tasks[j].id # tasks[k].id
            /\ ResaveReported
                  <=> \E k \in 1..Len(tasksFile.items) :
                        /\ IsDict(tasksFile.items[k])
                        /\ tasksFile.items[k].id = ""

\* A store with two records lacking an id and one having an id was loaded
C22_Witness ==
    /\ JustLoaded
    /\ Len(tasks) = 3
    /\ Cardinality({k \in 1..Len(tasksFile.items) :
                       tasksFile.items[k].id = ""}) = 2
    /\ tasks[3].id = tasksFile.items[3].id
    /\ tasks[1].id # tasks[2].id
    /\ ResaveReported

----------------------------------------------------------------------------
(* C23 *)

\* Every record of the store has a non-empty id
ValidIds(file) ==
    \A k \in 1..Len(file.items) :
        IsDict(file.items[k]) => file.items[k].id # ""

LoadStep == /\ Len(log') = Len(log) + 1
            /\ log'[Len(log')] \in {"load", "load_resave"}

\* C23 -- Load is repeatable: loading a store whose records all have valid
\* ids twice in a row, with no write in between, yields identical collections
\* and neither load reports resave-needed.
C23_LoadRepeatable ==
    [][(pc = "loaded" /\ LoadStep /\ ValidIds(tasksFile))
         => /\ tasks' = tasks
            /\ log[Len(log)] = "load"
            /\ log'[Len(log')] = "load"]_vars

\* A store of several records with ids was loaded twice in a row
C23_Witness ==
    /\ pc = "loaded"
    /\ log = <<"load", "load">>
    /\ ValidIds(tasksFile)
    /\ Len(tasks) >= 2

----------------------------------------------------------------------------
(* C24 *)

\* A list of records with non-empty id, name and command
WellFormedStore(file) ==
    /\ file.kind = "list"
    /\ \A k \in 1..Len(file.items) :
          WellFormed(file.items[k]) /\ file.items[k].id # ""

\* A well-formed store that holds every field as save_tasks writes it
CanonicalStore(file) ==
    /\ WellFormedStore(file)
    /\ \A k \in 1..Len(file.items) :
          /\ file.items[k].cwd # <<>>
          /\ file.items[k].parameters # NullList
          /\ file.items[k].last_param_values # NullDict

LoadedAndSaved == log = <<"load", "save">>

----------------------------------------------------------------------------
(* C25 *)

\* C25 -- Unique ids: the collection returned by load() has pairwise distinct
\* task ids for any store content.
C25_LoadedIdsDistinct ==
    pc = "loaded"
        => \A j, k \in 1..Len(tasks) : j # k => tasks[j].id # tasks[k].id

----------------------------------------------------------------------------
(* C27 *)

\* The task t is the stored record d, whatever its id if d has none
TaskOfRecord(t, d) ==
    /\ d.id # "" => t.id = d.id
    /\ t.name = d.name
    /\ t.command = d.command
    /\ t.description = d.description
    /\ t.last_run_timestamp = d.last_run_timestamp

\* C27 -- Malformed records: when the store holds a mix of well-formed
\* records and malformed ones (non-dictionary entry, empty name or command,
\* unknown field), load() returns exactly the well-formed records in their
\* stored order; a store that is not a JSON list or cannot be parsed yields
\* an empty collection with resave-needed false.
C27_MalformedRecordsSkipped ==
    pc = "loaded" =>
        IF tasksFile.kind = "list"
        THEN LET kept == SelectSeq(tasksFile.items, WellFormed)
             IN  /\ Len(tasks) = Len(kept)
                 /\ \A k \in 1..Len(tasks) : TaskOfRecord(tasks[k], kept[k])
        ELSE tasks = <<>> /\ ~ResaveReported

\* A store of a non-dictionary entry, a record with an empty name, one with
\* an unknown field and a well-formed one was loaded
C27_Witness ==
    /\ JustLoaded
    /\ \E k \in 1..Len(tasksFile.items) : tasksFile.items[k].json = "other"
    /\ \E k \in 1..Len(tasksFile.items) : tasksFile.items[k].json = "extra"
    /\ \E k \in 1..Len(tasksFile.items) :
          tasksFile.items[k].json = "object" /\ tasksFile.items[k].name = ""
    /\ Len(tasks) = 1
    /\ tasks[1].id = "d"

----------------------------------------------------------------------------
(* C26 *)

NamedAndRunnable(t) == t.name # "" /\ t.command # <<>>

AllNamedAndRunnable ==
    /\ \A k \in 1..Len(tasks) : NamedAndRunnable(tasks[k])
    /\ \A k \in 1..Len(tasksFile.items) : NamedAndRunnable(tasksFile.items[k])

\* C26 -- Non-empty name and command: after any sequence of add and edit
\* operations, every task in the in-memory and persisted collection has a
\* non-empty name and a non-empty command.
C26_NamesAndCommandsNonEmpty == AllNamedAndRunnable

\* The same after sequences of add operations only.
C26_AddsKeepNamesAndCommands ==
    (\A k \in 1..Len(log) :
        log[k] \in {"added", "add_rejected", "add_save_failed"})
        => AllNamedAndRunnable

----------------------------------------------------------------------------
(* C31 *)

\* Process p wrote the store, the history, in this step
WroteTasks(p) == proc[p].pc = "save_tasks" /\ proc'[p].tasks_saved = "ok"
WroteHistory(p) == proc[p].pc = "save_history" /\ proc'[p].history_saved = "ok"

AllDone == \A p \in Procs : proc[p].pc = "done"

\* Both processes read the history before either wrote it, and both wrote it
HistoryRaced ==
    /\ AllDone
    /\ \A p \in Procs :
          /\ proc[p].history_saved = "ok"
          /\ FirstN(proc[p].history, Len(proc[p].history) - 1)
                = load_history(start.historyFile)

\* Both processes read the store before either wrote it, and both wrote it
TasksRaced ==
    /\ AllDone
    /\ \A p \in Procs :
          /\ proc[p].tasks_saved = "ok"
          /\ \A k \in 1..Len(proc[p].tasks) :
                proc[p].tasks[k].id # proc[p].task_id
                    => asdict(proc[p].tasks[k]) = start.tasksFile.items[k]

\* The timestamp the store holds for the task of process p
StampIn(file, p) ==
    LET hits == {k \in 1..Len(file.items) :
                    file.items[k].id = proc[p].task_id}
    IN  file.items[CHOOSE k \in hits : TRUE].last_run_timestamp

\* C31 -- Last write wins: update_last_run_timestamp and add_history_entry
\* are load-mutate-save sequences with no locking.  A write leaves the store
\* holding the collection of the writer, whatever another process wrote since
\* the writer's load; when two concurrent dispatches both read the store (the
\* history) before either writes, the store (the history) ends holding the
\* collection written last: the timestamp of the other process's task is the
\* one found at the start, and the history holds only one of the two new
\* entries.
C31_LastWriteWins ==
    [][/\ \A p \in Procs :
            /\ WroteTasks(p) => tasksFile' = SavedTasks(proc[p].tasks)
            /\ WroteHistory(p)
                  => historyFile' = [kind |-> "list", items |-> proc[p].history]
       /\ HistoryRaced'
            => /\ \E p \in Procs : historyFile'.items = proc'[p].history
               /\ Len(historyFile'.items)
                     = Len(load_history(start.historyFile)) + 1
       /\ TasksRaced'
            => \E p, q \in Procs :
                 /\ p # q
                 /\ tasksFile' = SavedTasks(proc'[p].tasks)
                 /\ proc'[p].task_id # proc'[q].task_id
                       => StampIn(tasksFile', q) = StampIn(start.tasksFile, q)
      ]_vars

\* Two dispatches of different tasks raced on the store and on the history:
\* the store holds the timestamp of one task only and the history one entry
C31_Witness ==
    /\ HistoryRaced
    /\ TasksRaced
    /\ proc[1].task_id # proc[2].task_id
    /\ Len(historyFile.items) = Len(load_history(start.historyFile)) + 1
    /\ \E q \in Procs : StampIn(tasksFile, q) = StampIn(start.tasksFile, q)
    /\ \E p \in Procs : StampIn(tasksFile, p) # StampIn(start.tasksFile, p)

----------------------------------------------------------------------------
(* C32 *)

\* The session started after the dispatch has run on_mount
NextSessionMounted == last.event = "mount" /\ selected_task # <<>>

TimestampUpdated == Logged("timestamp") /\ ~Logged("warning_timestamp")

HistorySaved ==
    /\ Logged("history")
    /\ ~Logged("error_history")
    /\ ~Logged("warning_history")

FirstRowIs(id) == rows # <<>> /\ rows[1] = id
FirstRecommendationIs(id) == reco_ids # <<>> /\ reco_ids[1] = id

\* The dispatch read the clock after every time the store, the history of
\* the launch directory, holds
AfterStoredRuns ==
    \A k \in 1..Len(start.tasksFile.items) :
        LET ts == start.tasksFile.items[k].last_run_timestamp
        IN  ts # <<>> => ts[1] < start.clock

AfterRecordedRuns ==
    \A k \in 1..Len(start.historyFile.items) :
        LET e == start.historyFile.items[k]
        IN  e.directory = launch_cwd => e.timestamp < start.clock

----------------------------------------------------------------------------
(* C33 *)

\* The session has run on_mount on a store in which load_tasks generated ids
MountedOnIdlessStore ==
    /\ pc \notin {"mount"}
    /\ load_tasks(start.tasksFile, 0).needs_resave

\* The resave of on_mount wrote the collection; it failed and wrote nothing
Resaved == tasksFile = SavedTasks(tasks)
ResaveFailed == tasksFile = start.tasksFile

\* C33 -- Generated ids become stable: when a session starts on a store
\* containing records without ids, the session resaves the collection with
\* the generated ids, so that the id of the task later returned by the
\* session is found in the store by update_last_run_timestamp, and a later
\* load returns the same ids with resave-needed false; if the resave fails,
\* the in-memory collection keeps its generated ids and the session
\* continues.
C33_GeneratedIdsBecomeStable ==
    MountedOnIdlessStore =>
        /\ Resaved \/ ResaveFailed
        /\ \A k \in 1..Len(tasks) :
              /\ tasks[k].id # ""
              /\ tasks[k].id \in StoredIds(start.tasksFile)
                    \/ tasks[k].id \in {UuidPool[n] : n \in 1..uuidCount}
        /\ Resaved =>
              LET later == load_tasks(tasksFile, uuidCount)
              IN  /\ Ids(later.tasks) = Ids(tasks)
                  /\ ~later.needs_resave
                  /\ result.kind = "task" =>
                        update_last_run_timestamp(tasksFile, uuidCount,
                            result.task.id, clock, TRUE).ret
        /\ (ResaveFailed /\ last.event = "mount") => pc = "browsing"

\* The session resaved a store with a record lacking an id and returned the
\* task of that record
C33_Witness ==
    /\ MountedOnIdlessStore
    /\ Resaved
    /\ pc = "app_exit"
    /\ result.kind = "task"
    /\ result.task.id \notin StoredIds(start.tasksFile)
    /\ Len(tasks) >= 2

\* The resave failed and the session went on to return the task that has a
\* generated id
C33_WitnessResaveFailed ==
    /\ MountedOnIdlessStore
    /\ ResaveFailed
    /\ pc = "app_exit"
    /\ result.kind = "task"
    /\ result.task.id \notin StoredIds(start.tasksFile)

====
